---------------------------- MODULE Spec2Model ----------------------------
(***************************************************************************)
(* A model of the Formal-SDD refinement engine (LMGPA):                    *)
(*   - FeedbackParser.parse            src/src/verification/feedback_parser.py *)
(*   - LeanVerifier.verify             src/src/verification/lean_runner.py *)
(*   - Orchestrator.solve and its loop src/src/lmgpa/orchestrator.py       *)
(*                                                                         *)
(* Text is modelled as a sequence of tokens.  A token stands for a run of  *)
(* characters that the code searches for as a unit ("timeout", "error:",   *)
(* "unsolved goals", "case ", a newline, ...) or for ordinary text.        *)
(***************************************************************************)
EXTENDS Integers, Sequences, FiniteSets, TLC

VARIABLES
  \* ---- Orchestrator.solve / _refinement_loop -------------------------
  pc,                    \* position of the solve call
  max_refinement_steps,  \* LMGPAConfig.max_refinement_steps of this run
  step,                  \* the loop counter
  trace_spec,            \* result of formalizer.formalize
  logical_spec,          \* result of mapper.embed
  history,               \* SynthesisState.history
  metrics,               \* Orchestrator.metrics (SynthesisLog)
  candidate,             \* the Artifact sampled in the current iteration
  verification_result,   \* the VerificationResult of the current iteration
  returned,              \* what solve returned (an Artifact or None)
  sleeps,                \* the arguments of the time.sleep calls, in order
  calls,                 \* number of calls made to each collaborator, to
                         \* subprocess.run and to the parser
  outcomes,              \* the statuses verify returned, in order
  raised_by,             \* the call whose exception escaped solve
  main_lean,             \* content of <project_root>/FormalSDD/Main.lean
  oracle_env,            \* what the file system and the checker process did
                         \* during the latest verify call
  events,                \* the calls the loop and verify made, in order
  \* ---- FeedbackParser.parse called on its own ------------------------
  p_stdout, p_stderr, p_return_code,   \* the arguments of parse
  p_result,              \* the VerificationResult parse returned
  p_done,                \* whether parse has been called
  \* ---- PotentialCalculator.compute called on its own -----------------
  phi_weights,           \* the weights of the PotentialCalculator instance
  phi_artifact, phi_result,            \* the arguments of compute
  phi_value,             \* the potential compute returned
  phi_done,              \* whether compute has been called
  \* ---- LeanVerifier.verify called by sessions sharing a workspace ----
  ws_pc,                 \* position of each session's verify call
  ws_artifact,           \* the artifact each session is verifying
  ws_file,               \* content of the shared FormalSDD/Main.lean
  ws_read,               \* the source the checker process of each session read
  ws_result,             \* the VerificationResult each session's call returned
  ws_overlapped,         \* for each session, whether another call has been
                         \* in flight during its latest call
  \* ---- BoundedBufferSUT and the threads that call it ------------------
  bb_capacity,           \* self.capacity
  bb_buffer,             \* self.buffer
  bb_enqueue_history,    \* self.enqueue_history
  bb_dequeue_history,    \* self.dequeue_history
  bb_not_full,           \* the threads on the waiter list of self.not_full
  bb_not_empty,          \* the threads on the waiter list of self.not_empty
  bb_pc,                 \* position of each thread
  bb_op,                 \* the call each thread is in: its name and its item
  bb_expired,            \* whether the timeout of the thread's call has expired
  bb_returned,           \* what the thread's latest call returned
  bb_calls,              \* number of put/try_put and of get/try_get calls made
  \* ---- LRUCacheSUT and the threads that call it ------------------------
  lru_capacity,          \* self.capacity
  lru_cache,             \* self.cache, the least recently used entry first
  lru_access_history,    \* self.access_history
  lru_pc,                \* position of each thread
  lru_op,                \* the call each thread is in: name, key and value
  lru_returned,          \* what the thread's latest call returned
  \* ---- TokenBucketSUT, the clock and the threads that call it ----------
  tb_rate,               \* self.rate
  tb_capacity,           \* self.capacity
  tb_current_tokens,     \* self.current_tokens
  tb_last_update,        \* self.last_update
  tb_now,                \* what time.time() returns
  tb_acquisition_history,\* self.acquisition_history
  tb_pc,                 \* position of each thread
  tb_op,                 \* the call each thread is in
  tb_wait,               \* the wait each waiting thread is in
  tb_returned,           \* what the thread's latest call returned
  tb_calls,              \* number of calls made
  \* ---- TDDRunner.run_benchmark (src/baselines/baseline_2_tdd.py) -------
  tdd_pc,                \* position of the run_benchmark call
  tdd_max_iterations,    \* self.max_iterations
  tdd_iteration,         \* number of iterations of the loop begun
  tdd_messages,          \* messages
  tdd_feedback,          \* feedback
  tdd_current_code,      \* current_code
  tdd_files,             \* what the call wrote to solution.py,
                         \* final_solution.py and failed_solution.py
  tdd_calls              \* number of sample_kernel calls, of _run_pytest
                         \* calls, of those that passed and of writes of
                         \* solution.py

solveVars == <<pc, max_refinement_steps, step, trace_spec, logical_spec,
               history, metrics, candidate, verification_result, returned,
               sleeps, calls, outcomes, raised_by, main_lean, oracle_env,
               events>>
parseVars == <<p_stdout, p_stderr, p_return_code, p_result, p_done>>
potentialVars == <<phi_weights, phi_artifact, phi_result, phi_value, phi_done>>
workspaceVars == <<ws_pc, ws_artifact, ws_file, ws_read, ws_result,
                   ws_overlapped>>
bufferVars == <<bb_capacity, bb_buffer, bb_enqueue_history, bb_dequeue_history,
                bb_not_full, bb_not_empty, bb_pc, bb_op, bb_expired,
                bb_returned, bb_calls>>
cacheVars == <<lru_capacity, lru_cache, lru_access_history, lru_pc, lru_op,
               lru_returned>>
bucketVars == <<tb_rate, tb_capacity, tb_current_tokens, tb_last_update, tb_now,
                tb_acquisition_history, tb_pc, tb_op, tb_wait, tb_returned,
                tb_calls>>
tddVars == <<tdd_pc, tdd_max_iterations, tdd_iteration, tdd_messages,
             tdd_feedback, tdd_current_code, tdd_files, tdd_calls>>
vars == <<solveVars, parseVars, potentialVars, workspaceVars, bufferVars,
          cacheVars, bucketVars, tddVars>>

\* What a step of the solve call leaves alone, what a parse call does, what a
\* compute call does, what a step of a session on the workspace does and what
\* a step of a thread on the bounded buffer does, and what a step of a thread
\* on the cache does, and what a step of the clock or of a thread on the rate
\* limiter does.
notSolveVars == <<parseVars, potentialVars, workspaceVars, bufferVars, cacheVars,
    bucketVars,
    tddVars>>
notParseVars == <<solveVars, potentialVars, workspaceVars, bufferVars, cacheVars,
    bucketVars,
    tddVars>>
notPotentialVars == <<solveVars, parseVars, workspaceVars, bufferVars, cacheVars,
    bucketVars,
    tddVars>>
notWorkspaceVars == <<solveVars, parseVars, potentialVars, bufferVars, cacheVars,
    bucketVars,
    tddVars>>
notBufferVars == <<solveVars, parseVars, potentialVars, workspaceVars, cacheVars,
    bucketVars,
    tddVars>>
notCacheVars == <<solveVars, parseVars, potentialVars, workspaceVars, bufferVars,
    bucketVars,
    tddVars>>
notBucketVars == <<solveVars, parseVars, potentialVars, workspaceVars, bufferVars,
    cacheVars,
    tddVars>>
notTddVars == <<solveVars, parseVars, potentialVars, workspaceVars, bufferVars,
    cacheVars, bucketVars>>

\* Python's None where an object is expected, where an exception is expected
\* and where a string is expected.
None == [none |-> TRUE]
NoException == "no exception"
NoMatch == "no match"

-----------------------------------------------------------------------------
(* Bounds of the model *)

\* Largest max_refinement_steps a run is configured with.
MaxSteps == 3
\* Largest number of solve calls made on one Orchestrator.
MaxSolveCalls == 2
\* Largest number of tokens of stdout and stderr together handed to parse.
MaxOutLen == 3

-----------------------------------------------------------------------------
(* Text *)

\* Number of characters of each piece of text the model names.
CharsOf(name) ==
  CASE name = "\n" -> 1
    [] name = "txt" -> 3
    [] name = "case " -> 5
    [] name \in {"error:", "Error:", "ERROR:", "tactic", "Tactic", "failed"} -> 6
    [] name \in {"timeout", "TIMEOUT"} -> 7
    [] name \in {"deadline", "Deadline"} -> 8
    [] name = "no such file" -> 12
    [] name \in {"out of memory", "type mismatch"} -> 13
    [] name \in {"unsolved goals", "Unsolved Goals"} -> 14
    [] name \in {"unknown package", "... [truncated]"} -> 15
    [] name = "Compiler Error: " -> 16
    [] name = "Raw Output Tail:\n" -> 17
    [] name \in {"segmentation fault", "unknown identifier"} -> 18
    [] name = "Proof State at Failure:\n" -> 24
    [] name = "System timeout. Optimize proof efficiency." -> 42
    [] name = "The proof is correct. No errors found." -> 38
    [] name = "System ran out of memory." -> 25
    [] name = "Missing imports or dependency configuration error." -> 50
    [] name = "The verifier timed out. The proof may be inefficient or infinite looping." -> 73
    [] name = "a line of 1200 characters" -> 1200
    [] OTHER -> 1

\* A token: the text it stands for and how many of its characters are present
\* (fewer than CharsOf after a slice has cut it).
Tok(name) == <<name, CharsOf(name)>>

NL == Tok("\n")

\* str.lower() on the text of one token.
LowerName(name) ==
  CASE name = "TIMEOUT" -> "timeout"
    [] name = "Deadline" -> "deadline"
    [] name \in {"Error:", "ERROR:"} -> "error:"
    [] name = "Tactic" -> "tactic"
    [] name = "Unsolved Goals" -> "unsolved goals"
    [] OTHER -> name

\* str.lower()
lower(s) == [i \in 1..Len(s) |-> <<LowerName(s[i][1]), s[i][2]>>]

\* needle in s
contains(s, needle) == \E i \in 1..Len(s) : s[i] = Tok(needle)

\* s.count(needle)
count(s, needle) == Cardinality({i \in 1..Len(s) : s[i] = Tok(needle)})

\* len(s)
RECURSIVE len(_)
len(s) == IF s = <<>> THEN 0 ELSE Head(s)[2] + len(Tail(s))

\* s[:n]
RECURSIVE prefix(_, _)
prefix(s, n) ==
  IF s = <<>> \/ n <= 0 THEN <<>>
  ELSE IF Head(s)[2] <= n THEN <<Head(s)>> \o prefix(Tail(s), n - Head(s)[2])
  ELSE <<<<Head(s)[1], n>>>>

\* s[-n:]
RECURSIVE suffix(_, _)
suffix(s, n) ==
  IF s = <<>> \/ n <= 0 THEN <<>>
  ELSE LET last == s[Len(s)]
           init == SubSeq(s, 1, Len(s) - 1)
       IN  IF last[2] <= n THEN suffix(init, n - last[2]) \o <<last>>
           ELSE <<<<last[1], n>>>>

IsSpace(t) == t[1] = "\n"

\* Whitespace characters a token ends with.
TrailingSpace(t) == IF t = Tok("case ") THEN 1 ELSE 0

\* str.strip(): leading and trailing whitespace removed.
strip(s) ==
  LET keep == {i \in 1..Len(s) : ~IsSpace(s[i])}
  IN  IF keep = {} THEN <<>>
      ELSE LET lo == CHOOSE i \in keep : \A j \in keep : i <= j
               hi == CHOOSE i \in keep : \A j \in keep : j <= i
               last == <<s[hi][1], s[hi][2] - TrailingSpace(s[hi])>>
           IN  SubSeq(s, lo, hi - 1) \o <<last>>

\* "\n".join(lines)
RECURSIVE join(_)
join(lines) ==
  IF lines = <<>> THEN <<>>
  ELSE IF Len(lines) = 1 THEN lines[1]
  ELSE lines[1] \o <<NL>> \o join(Tail(lines))

max(a, b) == IF a >= b THEN a ELSE b

-----------------------------------------------------------------------------
(* Status and VerificationResult (src.lmgpa.state_manager) *)

OK == "OK"
ERR_LG == "ERR_LG"
ERR_TOOL == "ERR_TOOL"
Status == {OK, ERR_LG, ERR_TOOL}

\* Value of VerificationResult.unsolved_goals_count when the constructor is
\* not given one.
DefaultUnsolvedGoalsCount == 0

\* Value of VerificationResult.raw_stdout when the constructor is not given one.
DefaultRawStdout == <<>>

VerificationResult(status, summary, feedback, raw_stdout, raw_stderr, unsolved) ==
  [status |-> status, summary |-> summary, feedback |-> feedback,
   raw_stdout |-> raw_stdout, raw_stderr |-> raw_stderr,
   unsolved_goals_count |-> unsolved]

-----------------------------------------------------------------------------
(* FeedbackParser *)

\* A goal count without the floor of 1.
_count_cases_only(output) ==
  IF contains(output, "unsolved goals")
  THEN count(output, "case ")
  ELSE 1

_count_unsolved_goals(output) ==
  IF contains(output, "unsolved goals")
  THEN max(1, count(output, "case "))
  ELSE 1

\* re.findall(r"(?:error:|Error:)\s*(.*)", output): the capture of each match,
\* here the first one (the code uses error_matches[0] only).  <<>> stands for
\* "no match"; a match is <<capture>>.
error_matches(output) ==
  LET marks == {i \in 1..Len(output) : output[i] \in {Tok("error:"), Tok("Error:")}}
  IN  IF marks = {} THEN <<>>
      ELSE LET i == CHOOSE m \in marks : \A k \in marks : m <= k
               \* \s* : the whitespace after the marker
               text == {j \in (i+1)..Len(output) : ~IsSpace(output[j])}
               from == IF text = {} THEN Len(output) + 1
                       ELSE CHOOSE j \in text : \A k \in text : j <= k
               \* (.*) : up to the end of the line
               nls == {j \in from..Len(output) : IsSpace(output[j])}
               to == IF nls = {} THEN Len(output)
                     ELSE (CHOOSE j \in nls : \A k \in nls : j <= k) - 1
           IN  <<SubSeq(output, from, to)>>

\* re.search(r"unsolved goals\n(.*?)(?:\n\n|\Z)", output, re.DOTALL):
\* <<>> for no match, else <<group(1)>>.
goal_match(output) ==
  LET starts == {i \in 1..(Len(output) - 1) :
                   output[i] = Tok("unsolved goals") /\ output[i+1] = NL}
  IN  IF starts = {} THEN <<>>
      ELSE LET i == CHOOSE m \in starts : \A k \in starts : m <= k
               blanks == {j \in (i+2)..(Len(output) - 1) :
                            output[j] = NL /\ output[j+1] = NL}
               to == IF blanks = {} THEN Len(output)
                     ELSE (CHOOSE j \in blanks : \A k \in blanks : j <= k) - 1
           IN  <<SubSeq(output, i + 2, to)>>

\* Length above which the proof state snippet is cut.
SnippetLimit == 1000
\* Number of trailing characters of the output kept by the fallback.
TailLimit == 800

\* An extraction that puts the proof state before the compiler error and
\* always adds the tail of the output.
_extract_state_first_with_tail(output) ==
  LET em == error_matches(output)
      l1 == IF em # <<>>
            THEN << <<Tok("Compiler Error: ")>> \o em[1] >>
            ELSE <<>>
      gm == IF contains(output, "unsolved goals") THEN goal_match(output) ELSE <<>>
      state_snippet == IF gm = <<>> THEN <<>> ELSE strip(gm[1])
      cut == IF len(state_snippet) > SnippetLimit
             THEN prefix(state_snippet, SnippetLimit) \o <<Tok("... [truncated]")>>
             ELSE state_snippet
      l2 == IF gm # <<>>
            THEN << <<Tok("Proof State at Failure:\n")>> \o cut >>
            ELSE <<>>
  IN  join(l2 \o l1
           \o << <<Tok("Raw Output Tail:\n")>> \o strip(suffix(output, TailLimit)) >>)

_extract_error_context(output) ==
  LET em == error_matches(output)
      l1 == IF em # <<>>
            THEN << <<Tok("Compiler Error: ")>> \o em[1] >>
            ELSE <<>>
      gm == IF contains(output, "unsolved goals") THEN goal_match(output) ELSE <<>>
      state_snippet == IF gm = <<>> THEN <<>> ELSE strip(gm[1])
      cut == IF len(state_snippet) > SnippetLimit
             THEN prefix(state_snippet, SnippetLimit) \o <<Tok("... [truncated]")>>
             ELSE state_snippet
      l2 == IF gm # <<>>
            THEN << <<Tok("Proof State at Failure:\n")>> \o cut >>
            ELSE <<>>
      lines == l1 \o l2
      feedback_lines ==
        IF lines = <<>>
        THEN << <<Tok("Raw Output Tail:\n")>> \o strip(suffix(output, TailLimit)) >>
        ELSE lines
  IN  join(feedback_lines)

\* Case 1: the result for return code 0.
success_result(stdout, stderr) ==
  VerificationResult(OK, <<"Verification Successful">>,
    <<Tok("The proof is correct. No errors found.")>>, stdout, stderr, 0)

\* A tool check that gives way to a generic "error:" marker in the output.
tool_error_after_marker(lower_output) ==
  IF contains(lower_output, "error:") THEN NoMatch
  ELSE IF contains(lower_output, "timeout") \/ contains(lower_output, "deadline")
  THEN "Timeout"
  ELSE IF contains(lower_output, "out of memory")
          \/ contains(lower_output, "segmentation fault")
  THEN "Resource Exhaustion"
  ELSE IF contains(lower_output, "unknown package")
          \/ contains(lower_output, "no such file")
  THEN "Environment Error"
  ELSE NoMatch

\* Tool checks made in the opposite order.
tool_error_environment_first(lower_output) ==
  IF contains(lower_output, "unknown package")
     \/ contains(lower_output, "no such file")
  THEN "Environment Error"
  ELSE IF contains(lower_output, "out of memory")
          \/ contains(lower_output, "segmentation fault")
  THEN "Resource Exhaustion"
  ELSE IF contains(lower_output, "timeout") \/ contains(lower_output, "deadline")
  THEN "Timeout"
  ELSE NoMatch

\* Case 2: the tool error the output shows, as the summary of the first check
\* that matches, or NoMatch.
tool_error(lower_output) ==
  IF contains(lower_output, "timeout") \/ contains(lower_output, "deadline")
  THEN "Timeout"
  ELSE IF contains(lower_output, "out of memory")
          \/ contains(lower_output, "segmentation fault")
  THEN "Resource Exhaustion"
  ELSE IF contains(lower_output, "unknown package")
          \/ contains(lower_output, "no such file")
  THEN "Environment Error"
  ELSE NoMatch

\* Case 2: the result returned for a tool error.
tool_result(summary, stderr) ==
  VerificationResult(ERR_TOOL, <<summary>>,
    CASE summary = "Timeout" ->
           <<Tok("The verifier timed out. The proof may be inefficient or infinite looping.")>>
      [] summary = "Resource Exhaustion" -> <<Tok("System ran out of memory.")>>
      [] OTHER -> <<Tok("Missing imports or dependency configuration error.")>>,
    DefaultRawStdout, stderr, DefaultUnsolvedGoalsCount)

\* A logical result whose summary rules are tried in another order: the type
\* mismatch before the failed tactic.
logical_result_mismatch_first(stdout, stderr, full_output) ==
  LET lower_output == lower(full_output)
      unsolved_goals == _count_unsolved_goals(full_output)
      structured_feedback == _extract_error_context(full_output)
      error_summary ==
        IF contains(lower_output, "type mismatch") THEN "Type Mismatch"
        ELSE IF contains(lower_output, "tactic") /\ contains(lower_output, "failed")
        THEN "Tactic Failure"
        ELSE IF contains(lower_output, "unknown identifier") THEN "Syntax/Scope Error"
        ELSE "Logical Error"
  IN  VerificationResult(ERR_LG, <<error_summary, unsolved_goals, "goals left">>,
        structured_feedback, stdout, stderr, unsolved_goals)

\* Case 3: the result returned for a logical error.
logical_result(stdout, stderr, full_output) ==
  LET lower_output == lower(full_output)
      unsolved_goals == _count_unsolved_goals(full_output)
      structured_feedback == _extract_error_context(full_output)
      error_summary ==
        IF contains(lower_output, "tactic") /\ contains(lower_output, "failed")
        THEN "Tactic Failure"
        ELSE IF contains(lower_output, "type mismatch") THEN "Type Mismatch"
        ELSE IF contains(lower_output, "unknown identifier") THEN "Syntax/Scope Error"
        ELSE "Logical Error"
  IN  VerificationResult(ERR_LG, <<error_summary, unsolved_goals, "goals left">>,
        structured_feedback, stdout, stderr, unsolved_goals)

\* (stdout + "\n" + stderr).strip()
full_output_of(stdout, stderr) == strip(stdout \o <<NL>> \o stderr)

\* A parse that looks for tool errors before it looks at the return code.
parse_tool_first(stdout, stderr, return_code) ==
  LET full_output == full_output_of(stdout, stderr)
      tool == tool_error(lower(full_output))
  IN  IF tool # NoMatch THEN tool_result(tool, stderr)
      ELSE IF return_code = 0 THEN success_result(stdout, stderr)
      ELSE logical_result(stdout, stderr, full_output)

parse(stdout, stderr, return_code) ==
  LET full_output == full_output_of(stdout, stderr)
      tool == tool_error(lower(full_output))
  IN  IF return_code = 0 THEN success_result(stdout, stderr)
      ELSE IF tool # NoMatch THEN tool_result(tool, stderr)
      ELSE logical_result(stdout, stderr, full_output)

-----------------------------------------------------------------------------
(* LeanVerifier *)

\* logical_spec.lean_code.split(":= by")[0]
theorem_base(lean_code) ==
  LET at == {i \in 1..Len(lean_code) : lean_code[i] = ":= by"}
  IN  IF at = {} THEN lean_code
      ELSE SubSeq(lean_code, 1, (CHOOSE i \in at : \A j \in at : i <= j) - 1)

\* The text _write_candidate_file writes to Main.lean.
full_content(lspec, artifact) ==
  [imports |-> lspec.imports,
   theorem |-> theorem_base(lspec.lean_code),
   proof |-> artifact.proof_script]

\* What the file system does with the write of Main.lean: the file is
\* written, or mkdir/open/write raises an IOError (OSError), or f.write raises
\* an exception that is no IOError (UnicodeEncodeError: the text holds a
\* character the file's encoding cannot represent).
WriteOutcomes == {"written", "IOError", "UnicodeEncodeError"}

\* What subprocess.run(["lake", "build"], timeout=...) does: the process runs
\* to completion, the timeout expires, or the call raises another exception
\* (the executable cannot be launched).
RunOutcomes == {"completed", "TimeoutExpired", "Exception"}

EmptyFile == [empty |-> TRUE]

\* Main.lean after _write_candidate_file, given what the file system did.
\* A failed call leaves the old file (mkdir or open failed) or a truncated
\* one (open succeeded, write failed): env.truncated says which.
file_after(file, lspec, artifact, env) ==
  CASE env.write = "written" -> full_content(lspec, artifact)
    [] env.write = "IOError" -> IF env.truncated THEN EmptyFile ELSE file
    [] OTHER -> EmptyFile

\* The result verify builds itself when the write or the checker run failed.
io_error_result ==
  VerificationResult(ERR_TOOL, <<"IO Error during injection">>,
    <<Tok("System error: Could not write file.")>>,
    DefaultRawStdout, <<Tok("str(e)")>>, DefaultUnsolvedGoalsCount)

timeout_result(timeout) ==
  VerificationResult(ERR_TOOL, <<"Timeout">>,
    <<Tok("The verification process timed out. The proof might be inefficient or looping.")>>,
    DefaultRawStdout, <<"TimeoutExpired: ", timeout, "s">>,
    DefaultUnsolvedGoalsCount)

subprocess_error_result ==
  VerificationResult(ERR_TOOL, <<"Subprocess Error">>,
    <<Tok("System error: "), Tok("str(e)")>>,
    DefaultRawStdout, <<Tok("str(e)")>>, DefaultUnsolvedGoalsCount)

\* A verify that passes the parser's result on without its goal count.
verify_dropping_goal_count(lspec, artifact, timeout, env) ==
  IF env.write = "IOError"
  THEN [raised |-> NoException, result |-> io_error_result,
        launched |-> FALSE, parsed |-> FALSE]
  ELSE IF env.write # "written"
  THEN [raised |-> env.write, result |-> None,
        launched |-> FALSE, parsed |-> FALSE]
  ELSE IF env.run = "TimeoutExpired"
  THEN [raised |-> NoException, result |-> timeout_result(timeout),
        launched |-> TRUE, parsed |-> FALSE]
  ELSE IF env.run = "Exception"
  THEN [raised |-> NoException, result |-> subprocess_error_result,
        launched |-> TRUE, parsed |-> FALSE]
  ELSE [raised |-> NoException,
        result |-> [parse(env.stdout, env.stderr, env.returncode)
                      EXCEPT !.unsolved_goals_count = DefaultUnsolvedGoalsCount],
        launched |-> TRUE, parsed |-> TRUE]

\* A verify that hands a timed-out run to the parser as a run that printed
\* "timeout".
verify_parsing_timeouts(lspec, artifact, timeout, env) ==
  IF env.write = "IOError"
  THEN [raised |-> NoException, result |-> io_error_result,
        launched |-> FALSE, parsed |-> FALSE]
  ELSE IF env.write # "written"
  THEN [raised |-> env.write, result |-> None,
        launched |-> FALSE, parsed |-> FALSE]
  ELSE IF env.run = "TimeoutExpired"
  THEN [raised |-> NoException,
        result |-> parse(<<>>, <<Tok("timeout")>>, 1),
        launched |-> TRUE, parsed |-> TRUE]
  ELSE IF env.run = "Exception"
  THEN [raised |-> NoException, result |-> subprocess_error_result,
        launched |-> TRUE, parsed |-> FALSE]
  ELSE [raised |-> NoException,
        result |-> parse(env.stdout, env.stderr, env.returncode),
        launched |-> TRUE, parsed |-> TRUE]

\* LeanVerifier.verify: the exception that escapes it (NoException when it
\* returns), the VerificationResult it returns, whether it called
\* subprocess.run and whether it called the parser.  env is what the file
\* system and the checker process do during the call.
verify(lspec, artifact, timeout, env) ==
  IF env.write = "IOError"
  THEN [raised |-> NoException, result |-> io_error_result,
        launched |-> FALSE, parsed |-> FALSE]
  ELSE IF env.write # "written"
  THEN [raised |-> env.write, result |-> None,
        launched |-> FALSE, parsed |-> FALSE]
  ELSE IF env.run = "TimeoutExpired"
  THEN [raised |-> NoException, result |-> timeout_result(timeout),
        launched |-> TRUE, parsed |-> FALSE]
  ELSE IF env.run = "Exception"
  THEN [raised |-> NoException, result |-> subprocess_error_result,
        launched |-> TRUE, parsed |-> FALSE]
  ELSE [raised |-> NoException,
        result |-> parse(env.stdout, env.stderr, env.returncode),
        launched |-> TRUE, parsed |-> TRUE]

-----------------------------------------------------------------------------
(* Orchestrator *)

\* LMGPAConfig.timeout_per_verification
timeout_per_verification == 30

\* LMGPAConfig.backoff_factor = 1.5, as the fraction BackoffNum / BackoffDen
BackoffNum == 3
BackoffDen == 2

RECURSIVE Pow(_, _)
Pow(b, e) == IF e = 0 THEN 1 ELSE b * Pow(b, e - 1)

\* A delay whose exponent is the step index itself.
backoff_delay_from_zero(s) == <<Pow(BackoffNum, s), Pow(BackoffDen, s)>>

\* self.config.backoff_factor ** (step + 1), as <<numerator, denominator>>
backoff_delay(s) == <<Pow(BackoffNum, s + 1), Pow(BackoffDen, s + 1)>>

\* The TraceSpec the formalizer returns and the LogicalSpec the mapper makes
\* of it (mapper.embed: theorem "<name>_Correctness" ending in ":= by sorry").
TraceSpecs == {[name |-> "ts", predicates |-> <<"Mono: x">>]}

embed(ts) ==
  [theorem_name |-> <<ts.name, "_Correctness">>,
   lean_code |-> <<"LEAN_HEADER", "theorem", ":= by", "sorry">>,
   imports |-> <<"FormalSDD.Trace", "FormalSDD.LTL">>]

\* The proof scripts the synthesizer proposes: a complete proof and one that
\* still holds an admitted marker.
ProofScripts == {<<"trivial">>, <<"sorry">>}

Artifacts ==
  {[program_code |-> "p", proof_script |-> ps, language |-> "lean"] :
     ps \in ProofScripts}

S(names) == [i \in 1..Len(names) |-> Tok(names[i])]

\* Outputs of a checker run that ran to completion (a small choice of them;
\* ParseInit below ranges over all outputs within the bound).
CheckerRuns ==
  {[stdout |-> S(<<"txt">>), stderr |-> <<>>, returncode |-> 0],
   [stdout |-> S(<<"error:", "unsolved goals", "\n", "case ", "txt", "\n", "case ", "txt">>),
    stderr |-> <<>>, returncode |-> 1],
   [stdout |-> <<>>, stderr |-> S(<<"error:", "txt">>), returncode |-> 1],
   [stdout |-> <<>>, stderr |-> S(<<"Error:", "timeout">>), returncode |-> 1]}

\* Everything the environment can do during one verify call.
VerifyEnvs ==
  {[write |-> "written", truncated |-> FALSE, run |-> "completed",
    stdout |-> r.stdout, stderr |-> r.stderr, returncode |-> r.returncode] :
     r \in CheckerRuns}
  \cup
  {[write |-> "written", truncated |-> FALSE, run |-> ro,
    stdout |-> <<>>, stderr |-> <<>>, returncode |-> 0] :
     ro \in RunOutcomes \ {"completed"}}
  \cup
  {[write |-> w, truncated |-> t, run |-> "completed",
    stdout |-> <<>>, stderr |-> <<>>, returncode |-> 0] :
     w \in WriteOutcomes \ {"written"}, t \in BOOLEAN}

SolveIdle ==
  /\ pc = "idle"
  /\ max_refinement_steps = 0
  /\ step = 0
  /\ trace_spec = None
  /\ logical_spec = None
  /\ history = <<>>
  /\ metrics = [iterations |-> <<>>, semantic_potential |-> <<>>]
  /\ candidate = None
  /\ verification_result = None
  /\ returned = None
  /\ sleeps = <<>>
  /\ calls = [formalize |-> 0, embed |-> 0, sample_kernel |-> 0, verify |-> 0,
              subprocess_run |-> 0, parse |-> 0]
  /\ outcomes = <<>>
  /\ raised_by = NoException
  /\ main_lean = EmptyFile
  /\ oracle_env = None
  /\ events = <<>>

\* Orchestrator.__init__ followed by the call of solve: nothing has run yet.
SolveInit ==
  /\ pc = "formalize"
  /\ max_refinement_steps \in 0..MaxSteps
  /\ step = 0
  /\ trace_spec = None
  /\ logical_spec = None
  /\ history = <<>>
  /\ metrics = [iterations |-> <<>>, semantic_potential |-> <<>>]
  /\ candidate = None
  /\ verification_result = None
  /\ returned = None
  /\ sleeps = <<>>
  /\ calls = [formalize |-> 0, embed |-> 0, sample_kernel |-> 0, verify |-> 0,
              subprocess_run |-> 0, parse |-> 0]
  /\ outcomes = <<>>
  /\ raised_by = NoException
  /\ main_lean = EmptyFile
  /\ oracle_env = None
  /\ events = <<>>

\* The state of the solve state machine (spec section 4.1) at each position.
MachineState ==
  CASE pc = "formalize" -> "FORMALIZING"
    [] pc = "embed" -> "EMBEDDING"
    [] pc \in {"loop", "verify", "branch"} -> "REFINING"
    [] pc = "success" -> "SUCCESS"
    [] pc = "failure" -> "FAILURE"
    [] pc = "raised" -> "RAISED"
    [] OTHER -> "IDLE"

\* An exception leaves solve (nothing in solve or the loop catches one).
Propagate(who) ==
  /\ pc' = "raised"
  /\ raised_by' = who

\* trace_spec = self.formalizer.formalize(natural_language_intent)
Formalize ==
  /\ UNCHANGED notSolveVars
  /\ pc = "formalize"
  /\ calls' = [calls EXCEPT !.formalize = @ + 1]
  /\ \E ts \in TraceSpecs : trace_spec' = ts
  /\ pc' = "embed"
  /\ UNCHANGED <<max_refinement_steps, step, logical_spec, history, metrics,
                 candidate, verification_result, returned, sleeps, outcomes,
                 raised_by, main_lean, oracle_env,
                 events>>

\* A formalize failure that is retried instead of propagated.
FormalizeRetried ==
  /\ UNCHANGED notSolveVars
  /\ pc = "formalize"
  /\ calls' = [calls EXCEPT !.formalize = @ + 1]
  /\ UNCHANGED <<pc, raised_by, max_refinement_steps, step, trace_spec,
                 logical_spec, history, metrics, candidate, verification_result,
                 returned, sleeps, outcomes, main_lean, oracle_env,
                 events>>

\* formalize raises
FormalizeFails ==
  /\ UNCHANGED notSolveVars
  /\ pc = "formalize"
  /\ calls' = [calls EXCEPT !.formalize = @ + 1]
  /\ Propagate("formalize")
  /\ UNCHANGED <<max_refinement_steps, step, trace_spec, logical_spec, history,
                 metrics, candidate, verification_result, returned, sleeps,
                 outcomes, main_lean, oracle_env,
                 events>>

\* logical_spec = self.mapper.embed(trace_spec); current_state = SynthesisState(
\* ..., history=[]); the loop starts with step = 0
Embed ==
  /\ UNCHANGED notSolveVars
  /\ pc = "embed"
  /\ calls' = [calls EXCEPT !.embed = @ + 1]
  /\ logical_spec' = embed(trace_spec)
  /\ history' = <<>>
  /\ step' = 0
  /\ pc' = "loop"
  /\ UNCHANGED <<max_refinement_steps, trace_spec, metrics, candidate,
                 verification_result, returned, sleeps, outcomes, raised_by,
                 main_lean, oracle_env,
                 events>>

\* embed raises
EmbedFails ==
  /\ UNCHANGED notSolveVars
  /\ pc = "embed"
  /\ calls' = [calls EXCEPT !.embed = @ + 1]
  /\ Propagate("embed")
  /\ UNCHANGED <<max_refinement_steps, step, trace_spec, logical_spec, history,
                 metrics, candidate, verification_result, returned, sleeps,
                 outcomes, main_lean, oracle_env,
                 events>>

\* A call or statement of the loop, with the iteration it belongs to.
loop_event(name, s) == [event |-> name, step |-> s]

\* A sampler call that is handed the latest history entry only.
sample_kernel_call_latest_entry(s, lspec, h) ==
  [event |-> "sample_kernel", step |-> s, logical_spec |-> lspec,
   history |-> IF h = <<>> THEN h ELSE <<h[Len(h)]>>]

\* self.synthesizer.sample_kernel(state): the state handed over holds the
\* logical spec and the history.
sample_kernel_call(s, lspec, h) ==
  [event |-> "sample_kernel", step |-> s, logical_spec |-> lspec, history |-> h]

\* A verify that writes Main.lean a second time after the checker has run.
verify_events_writing_twice(s, lspec, v) ==
  <<[event |-> "verify", step |-> s, logical_spec |-> lspec],
    loop_event("_write_candidate_file", s)>>
  \o (IF v.launched
      THEN <<loop_event("subprocess.run", s),
             loop_event("_write_candidate_file", s)>>
      ELSE <<>>)
  \o (IF v.parsed THEN <<loop_event("parse", s)>> ELSE <<>>)

\* self.verifier.verify(state.logical_spec, candidate, timeout=...) and the
\* calls verify makes, in order: _write_candidate_file, subprocess.run unless
\* the write failed, parser.parse if the process ran to completion.
verify_events(s, lspec, v) ==
  <<[event |-> "verify", step |-> s, logical_spec |-> lspec],
    loop_event("_write_candidate_file", s)>>
  \o (IF v.launched THEN <<loop_event("subprocess.run", s)>> ELSE <<>>)
  \o (IF v.parsed THEN <<loop_event("parse", s)>> ELSE <<>>)

\* A loop condition that is off by one.
LoopConditionInclusive(s, bound) == s <= bound

\* while step < self.config.max_refinement_steps
LoopCondition(s, bound) == s < bound

\* candidate = self.synthesizer.sample_kernel(state)
Sample ==
  /\ UNCHANGED notSolveVars
  /\ pc = "loop"
  /\ LoopCondition(step, max_refinement_steps)
  /\ calls' = [calls EXCEPT !.sample_kernel = @ + 1]
  /\ candidate' \in Artifacts
  /\ pc' = "verify"
  /\ events' = Append(events, sample_kernel_call(step, logical_spec, history))
  /\ UNCHANGED <<max_refinement_steps, step, trace_spec, logical_spec, history,
                 metrics, verification_result, returned, sleeps, outcomes,
                 raised_by, main_lean, oracle_env>>

\* The loop ends with the budget used up: return None
Exhausted ==
  /\ UNCHANGED notSolveVars
  /\ pc = "loop"
  /\ ~LoopCondition(step, max_refinement_steps)
  /\ returned' = None
  /\ pc' = "failure"
  /\ UNCHANGED <<max_refinement_steps, step, trace_spec, logical_spec, history,
                 metrics, candidate, verification_result, sleeps, calls,
                 outcomes, raised_by, main_lean, oracle_env,
                 events>>

\* verification_result = self.verifier.verify(state.logical_spec, candidate,
\*                                            timeout=...)
Verify ==
  /\ UNCHANGED notSolveVars
  /\ pc = "verify"
  /\ \E env \in VerifyEnvs :
       \E v \in {verify(logical_spec, candidate, timeout_per_verification, env)} :
           /\ oracle_env' = env
           /\ calls' = [calls EXCEPT
                          !.verify = @ + 1,
                          !.subprocess_run = @ + (IF v.launched THEN 1 ELSE 0),
                          !.parse = @ + (IF v.parsed THEN 1 ELSE 0)]
           /\ main_lean' = file_after(main_lean, logical_spec, candidate, env)
           /\ events' = events \o verify_events(step, logical_spec, v)
           /\ IF v.raised # NoException
              THEN /\ Propagate("verify")
                   /\ UNCHANGED <<verification_result, outcomes>>
              ELSE /\ verification_result' = v.result
                   /\ outcomes' = Append(outcomes, v.result.status)
                   /\ pc' = "branch"
                   /\ UNCHANGED raised_by
  /\ UNCHANGED <<max_refinement_steps, step, trace_spec, logical_spec, history,
                 metrics, candidate, returned, sleeps>>

\* A metrics log that skips the iterations that ended in a tool error.
log_metrics_unless_tool(m, s, result) ==
  IF result.status = ERR_TOOL THEN m
  ELSE [iterations |-> Append(m.iterations, s),
        semantic_potential |-> Append(m.semantic_potential, result.unsolved_goals_count)]

\* self.metrics.iterations.append(step);
\* self.metrics.semantic_potential.append(phi_x)
log_metrics(m, s, result) ==
  [iterations |-> Append(m.iterations, s),
   semantic_potential |-> Append(m.semantic_potential, result.unsolved_goals_count)]

\* The history entry of an iteration that ended in a logical error.
logical_entry(s, cand, result) ==
  [step |-> s, artifact |-> cand, feedback |-> result.feedback,
   raw_error |-> result.raw_stderr]

\* A tool entry that carries the index of the iteration to come.
tool_entry_of_next_step(s) ==
  [step |-> s + 1, error_type |-> "TOOL_ERROR",
   feedback |-> <<Tok("System timeout. Optimize proof efficiency.")>>]

\* The history entry of an iteration that ended in a tool error.
tool_entry(s) ==
  [step |-> s, error_type |-> "TOOL_ERROR",
   feedback |-> <<Tok("System timeout. Optimize proof efficiency.")>>]

\* A history that keeps only the latest entry.
history_replace(h, entry) == <<entry>>

\* state.history.append(entry)
history_append(h, entry) == Append(h, entry)

\* A step counter that does not advance.
same_step(s) == s

\* step += 1
next_step(s) == s + 1

\* A success branch that accepts the candidate only if its proof script holds
\* no admitted marker, and otherwise goes on refining.
ReturnCandidateIfComplete ==
  /\ UNCHANGED notSolveVars
  /\ pc = "branch"
  /\ verification_result.status = OK
  /\ metrics' = log_metrics(metrics, step, verification_result)
  /\ IF \E i \in 1..Len(candidate.proof_script) : candidate.proof_script[i] = "sorry"
     THEN /\ history' = history_append(history,
                           logical_entry(step, candidate, verification_result))
          /\ step' = next_step(step)
          /\ pc' = "loop"
          /\ UNCHANGED returned
     ELSE /\ returned' = candidate
          /\ pc' = "success"
          /\ UNCHANGED <<history, step>>
  /\ events' = Append(events, loop_event(IF pc' = "success" THEN "return" ELSE "history.append", step))
  /\ UNCHANGED <<max_refinement_steps, trace_spec, logical_spec, candidate,
                 verification_result, sleeps, calls, outcomes, raised_by,
                 main_lean, oracle_env>>

\* status OK: metrics are logged and the candidate is returned
ReturnCandidate ==
  /\ UNCHANGED notSolveVars
  /\ pc = "branch"
  /\ verification_result.status = OK
  /\ metrics' = log_metrics(metrics, step, verification_result)
  /\ returned' = candidate
  /\ pc' = "success"
  /\ events' = Append(events, loop_event("return", step))
  /\ UNCHANGED <<max_refinement_steps, step, trace_spec, logical_spec, history,
                 candidate, verification_result, sleeps, calls, outcomes,
                 raised_by, main_lean, oracle_env>>

\* status ERR_LG: metrics are logged, the feedback is appended to the history,
\* step += 1
Refine ==
  /\ UNCHANGED notSolveVars
  /\ pc = "branch"
  /\ verification_result.status = ERR_LG
  /\ metrics' = log_metrics(metrics, step, verification_result)
  /\ history' = history_append(history,
                   logical_entry(step, candidate, verification_result))
  /\ step' = next_step(step)
  /\ pc' = "loop"
  /\ events' = Append(events, loop_event("history.append", step))
  /\ UNCHANGED <<max_refinement_steps, trace_spec, logical_spec, candidate,
                 verification_result, returned, sleeps, calls, outcomes,
                 raised_by, main_lean, oracle_env>>

\* A tool error that ends the call instead of being retried.
BackoffGivesUp ==
  /\ UNCHANGED notSolveVars
  /\ pc = "branch"
  /\ verification_result.status = ERR_TOOL
  /\ metrics' = log_metrics(metrics, step, verification_result)
  /\ returned' = None
  /\ pc' = "failure"
  /\ UNCHANGED <<max_refinement_steps, step, trace_spec, logical_spec, history,
                 candidate, verification_result, sleeps, calls, outcomes,
                 raised_by, main_lean, oracle_env,
                 events>>

\* A tool error that is retried without using up a step of the budget.
BackoffKeepsStep ==
  /\ UNCHANGED notSolveVars
  /\ pc = "branch"
  /\ verification_result.status = ERR_TOOL
  /\ metrics' = log_metrics(metrics, step, verification_result)
  /\ sleeps' = Append(sleeps, backoff_delay(step))
  /\ history' = history_append(history, tool_entry(step))
  /\ pc' = "loop"
  /\ events' = events \o <<loop_event("sleep", step),
                          loop_event("history.append", step)>>
  /\ UNCHANGED <<max_refinement_steps, step, trace_spec, logical_spec, candidate,
                 verification_result, returned, calls, outcomes, raised_by,
                 main_lean, oracle_env>>

\* status ERR_TOOL: metrics are logged, the thread sleeps
\* backoff_factor ** (step + 1), a tool entry is appended to the history,
\* step += 1
Backoff ==
  /\ UNCHANGED notSolveVars
  /\ pc = "branch"
  /\ verification_result.status = ERR_TOOL
  /\ metrics' = log_metrics(metrics, step, verification_result)
  /\ sleeps' = Append(sleeps, backoff_delay(step))
  /\ history' = history_append(history, tool_entry(step))
  /\ step' = next_step(step)
  /\ pc' = "loop"
  /\ events' = events \o <<loop_event("sleep", step),
                          loop_event("history.append", step)>>
  /\ UNCHANGED <<max_refinement_steps, trace_spec, logical_spec, candidate,
                 verification_result, returned, calls, outcomes, raised_by,
                 main_lean, oracle_env>>

SolveNext ==
  \/ Formalize
  \/ FormalizeFails
  \/ Embed
  \/ EmbedFails
  \/ Sample
  \/ Exhausted
  \/ Verify
  \/ ReturnCandidate
  \/ Refine
  \/ Backoff

\* The solve calls started on the Orchestrator so far: every call starts with
\* one call of formalize.
SolveCalls == calls.formalize + (IF pc = "formalize" THEN 1 ELSE 0)

\* The local state of a solve call that starts: nothing of the call before is
\* left but the attributes of the Orchestrator (config, metrics), the count of
\* the calls made on its components and the file on disk.  The records kept of
\* one call (outcomes, sleeps, events, the exception) start again.
NewSolveCall ==
  /\ pc \in {"success", "failure", "raised"}
  /\ SolveCalls < MaxSolveCalls
  /\ pc' = "formalize"
  /\ step' = 0
  /\ trace_spec' = None
  /\ logical_spec' = None
  /\ history' = <<>>
  /\ candidate' = None
  /\ verification_result' = None
  /\ returned' = None
  /\ sleeps' = <<>>
  /\ outcomes' = <<>>
  /\ raised_by' = NoException
  /\ oracle_env' = None
  /\ events' = <<>>
  /\ UNCHANGED <<max_refinement_steps, calls, main_lean>>

\* A solve call that starts with a new metrics log.
SolveAgainWithNewLog ==
  /\ UNCHANGED notSolveVars
  /\ NewSolveCall
  /\ metrics' = [iterations |-> <<>>, semantic_potential |-> <<>>]

\* solve is called again on the same Orchestrator after a call has returned
\* or raised: self.metrics is the log made by __init__.
SolveAgain ==
  /\ UNCHANGED notSolveVars
  /\ NewSolveCall
  /\ UNCHANGED metrics

\* Successive solve calls on one Orchestrator.
SolveAgainNext ==
  \/ SolveNext
  \/ SolveAgain

-----------------------------------------------------------------------------
(* FeedbackParser.parse called on its own, on every output within the bound *)

\* The pieces of text the outputs handed to parse are made of.
Alphabet ==
  {Tok(n) : n \in {"timeout", "TIMEOUT", "Deadline", "out of memory",
                   "segmentation fault", "unknown package", "no such file",
                   "error:", "Error:", "ERROR:", "unsolved goals", "case ",
                   "tactic", "Tactic", "failed", "type mismatch",
                   "unknown identifier", "\n", "txt",
                   "a line of 1200 characters"}}

\* Exit statuses of the checker process.
ReturnCodes == {0, 1}

ParseIdle ==
  /\ p_stdout = <<>>
  /\ p_stderr = <<>>
  /\ p_return_code = 0
  /\ p_result = None
  /\ p_done = FALSE

ParseInit ==
  /\ \E a \in 0..MaxOutLen : \E b \in 0..(MaxOutLen - a) :
       /\ p_stdout \in [1..a -> Alphabet]
       /\ p_stderr \in [1..b -> Alphabet]
  /\ p_return_code \in ReturnCodes
  /\ p_result = None
  /\ p_done = FALSE

Parse ==
  /\ UNCHANGED notParseVars
  /\ ~p_done
  /\ p_result' = parse(p_stdout, p_stderr, p_return_code)
  /\ p_done' = TRUE
  /\ UNCHANGED <<p_stdout, p_stderr, p_return_code>>

-----------------------------------------------------------------------------
(* PotentialCalculator (src/src/verification/potential.py) *)

\* Largest number of pieces of a proof script handed to compute.
MaxScriptLen == 3
\* Largest unsolved_goals_count of a result handed to compute.
MaxGoals == 2

\* The pieces a proof script is made of: the word sorry, a tactic, an
\* identifier that holds the letters of sorry, the start of a line comment and
\* the end of a line.
ScriptAlphabet == {"sorry", "trivial", "my_sorry", "--", "\n"}

\* re.sub(r'--.*', '', lean_code): every line loses its comment.
RECURSIVE strip_comments(_, _)
strip_comments(code, in_comment) ==
  IF code = <<>> THEN <<>>
  ELSE LET h == Head(code)
       IN  IF h = "\n" THEN <<h>> \o strip_comments(Tail(code), FALSE)
           ELSE IF in_comment \/ h = "--" THEN strip_comments(Tail(code), TRUE)
           ELSE <<h>> \o strip_comments(Tail(code), FALSE)

\* len(re.findall(r'\bsorry\b', code_without_comments))
_count_sorry_tokens(lean_code) ==
  LET code_without_comments == strip_comments(lean_code, FALSE)
  IN  Cardinality({i \in 1..Len(code_without_comments) :
                     code_without_comments[i] = "sorry"})

\* The weights PotentialCalculator is constructed with by default.
weight_goals == 1
weight_sorry == 2
penalty_error == 5

\* Weights an instance is configured with: each one 0 or one of the default
\* values.
WeightValues == {0, weight_goals, weight_sorry, penalty_error}
Weights == [w_goals : WeightValues, w_sorry : WeightValues, w_error : WeightValues]

\* A compute without the penalty for a logical error that shows no goal.
compute_without_fallback(w, artifact, result) ==
  LET sorry_count == _count_sorry_tokens(artifact.proof_script)
      base == sorry_count * w.w_sorry
  IN  IF result = None THEN base
      ELSE IF result.status = OK
      THEN IF sorry_count = 0 THEN 0 ELSE base
      ELSE IF result.status = ERR_LG
      THEN base + result.unsolved_goals_count * w.w_goals
      ELSE base + w.w_error

\* A compute that takes the checker's OK for a complete proof.
compute_trusting_ok(w, artifact, result) ==
  LET sorry_count == _count_sorry_tokens(artifact.proof_script)
      base == sorry_count * w.w_sorry
  IN  IF result = None THEN base
      ELSE IF result.status = OK THEN 0
      ELSE IF result.status = ERR_LG
      THEN base + result.unsolved_goals_count * w.w_goals
             + (IF result.unsolved_goals_count = 0 THEN w.w_error ELSE 0)
      ELSE base + w.w_error

\* PotentialCalculator.compute on an instance with the weights w
compute(w, artifact, result) ==
  LET sorry_count == _count_sorry_tokens(artifact.proof_script)
      base == sorry_count * w.w_sorry
  IN  IF result = None THEN base
      ELSE IF result.status = OK
      THEN IF sorry_count = 0 THEN 0 ELSE base
      ELSE IF result.status = ERR_LG
      THEN base + result.unsolved_goals_count * w.w_goals
             + (IF result.unsolved_goals_count = 0 THEN w.w_error ELSE 0)
      ELSE base + w.w_error

\* The results handed to compute: none, or one of any status and count.
PotentialResults ==
  {None} \cup
  {VerificationResult(s, <<>>, <<>>, <<>>, <<>>, n) : s \in Status, n \in 0..MaxGoals}

PotentialIdle ==
  /\ phi_weights = None
  /\ phi_artifact = None
  /\ phi_result = None
  /\ phi_value = 0
  /\ phi_done = FALSE

PotentialInit ==
  /\ phi_weights \in Weights
  /\ \E n \in 0..MaxScriptLen : \E ps \in [1..n -> ScriptAlphabet] :
       phi_artifact = [program_code |-> "p", proof_script |-> ps, language |-> "lean"]
  /\ phi_result \in PotentialResults
  /\ phi_value = 0
  /\ phi_done = FALSE

Compute ==
  /\ UNCHANGED notPotentialVars
  /\ ~phi_done
  /\ phi_value' = compute(phi_weights, phi_artifact, phi_result)
  /\ phi_done' = TRUE
  /\ UNCHANGED <<phi_weights, phi_artifact, phi_result>>

-----------------------------------------------------------------------------
(* LeanVerifier.verify called by several sessions on one workspace *)

\* Number of sessions that share the workspace (the project_root).
MaxSessions == 2
Sessions == 1..MaxSessions

\* The candidates the sessions submit: a proof the checker accepts and one it
\* rejects.
WorkspaceArtifacts ==
  {[program_code |-> "p", proof_script |-> ps, language |-> "lean"] :
     ps \in {<<"trivial">>, <<"simp">>}}

\* The LogicalSpec every session verifies against.
WorkspaceSpec == embed(CHOOSE ts \in TraceSpecs : TRUE)

\* What `lake build` prints and returns for the source it reads: the checker
\* is deterministic, so its output is a function of the content of Main.lean.
lake_build(source) ==
  IF source = EmptyFile
  THEN [stdout |-> <<>>, stderr |-> <<>>, returncode |-> 0]
  ELSE IF source.proof = <<"trivial">>
  THEN [stdout |-> S(<<"txt">>), stderr |-> <<>>, returncode |-> 0]
  ELSE [stdout |-> S(<<"error:", "unsolved goals", "\n", "case ", "txt">>),
        stderr |-> <<>>, returncode |-> 1]

\* The file system lets the write through.
WriteOk == [write |-> "written", truncated |-> FALSE]

\* The environment of a verify call whose write succeeds and whose checker
\* runs to completion on the source it read.
env_of(source) ==
  LET run == lake_build(source)
  IN  [write |-> WriteOk.write, truncated |-> WriteOk.truncated,
       run |-> "completed", stdout |-> run.stdout, stderr |-> run.stderr,
       returncode |-> run.returncode]

\* A fresh workspace and no verify call in flight.
WorkspaceInit ==
  /\ ws_pc = [s \in Sessions |-> "idle"]
  /\ ws_artifact = [s \in Sessions |-> None]
  /\ ws_file = EmptyFile
  /\ ws_read = [s \in Sessions |-> None]
  /\ ws_result = [s \in Sessions |-> None]
  /\ ws_overlapped = [s \in Sessions |-> FALSE]

\* No session uses the workspace.
WorkspaceIdle == WorkspaceInit

\* Session s has a verify call in flight.
InFlight(s) == ws_pc[s] \notin {"idle", "returned"}

\* Session s calls verify(logical_spec, artifact): nothing keeps it from
\* doing so while another call is in flight.
BeginVerify(s) ==
  /\ UNCHANGED notWorkspaceVars
  /\ ws_pc[s] \in {"idle", "returned"}
  /\ \E a \in WorkspaceArtifacts : ws_artifact' = [ws_artifact EXCEPT ![s] = a]
  /\ ws_pc' = [ws_pc EXCEPT ![s] = "open"]
  /\ ws_read' = [ws_read EXCEPT ![s] = None]
  /\ ws_result' = [ws_result EXCEPT ![s] = None]
  /\ ws_overlapped' =
       [t \in Sessions |->
          IF t = s THEN \E u \in Sessions \ {s} : InFlight(u)
          ELSE ws_overlapped[t] \/ InFlight(t)]
  /\ UNCHANGED ws_file

\* open(target_path, "w"): the file is truncated
OpenSource(s) ==
  /\ UNCHANGED notWorkspaceVars
  /\ ws_pc[s] = "open"
  /\ ws_file' = EmptyFile
  /\ ws_pc' = [ws_pc EXCEPT ![s] = "write"]
  /\ UNCHANGED <<ws_artifact, ws_read, ws_result, ws_overlapped>>

\* A write that is lost: the file stays as open left it.
WriteSourceLost(s) ==
  /\ UNCHANGED notWorkspaceVars
  /\ ws_pc[s] = "write"
  /\ ws_pc' = [ws_pc EXCEPT ![s] = "run"]
  /\ UNCHANGED <<ws_file, ws_artifact, ws_read, ws_result, ws_overlapped>>

\* f.write(full_content) and the close of the file
WriteSource(s) ==
  /\ UNCHANGED notWorkspaceVars
  /\ ws_pc[s] = "write"
  /\ ws_file' = file_after(ws_file, WorkspaceSpec, ws_artifact[s], WriteOk)
  /\ ws_pc' = [ws_pc EXCEPT ![s] = "run"]
  /\ UNCHANGED <<ws_artifact, ws_read, ws_result, ws_overlapped>>

\* subprocess.run(["lake", "build"], ...): the checker process of session s
\* reads Main.lean
CheckerReads(s) ==
  /\ UNCHANGED notWorkspaceVars
  /\ ws_pc[s] = "run"
  /\ ws_read' = [ws_read EXCEPT ![s] = ws_file]
  /\ ws_pc' = [ws_pc EXCEPT ![s] = "wait"]
  /\ UNCHANGED <<ws_artifact, ws_file, ws_result, ws_overlapped>>

\* The checker process ends and verify returns parse(stdout, stderr,
\* return_code)
ReturnResult(s) ==
  /\ UNCHANGED notWorkspaceVars
  /\ ws_pc[s] = "wait"
  /\ ws_result' = [ws_result EXCEPT ![s] =
       verify(WorkspaceSpec, ws_artifact[s], timeout_per_verification,
              env_of(ws_read[s])).result]
  /\ ws_pc' = [ws_pc EXCEPT ![s] = "returned"]
  /\ UNCHANGED <<ws_artifact, ws_file, ws_read, ws_overlapped>>

WorkspaceNext ==
  \/ \E s \in Sessions : BeginVerify(s)
  \/ \E s \in Sessions : OpenSource(s)
  \/ \E s \in Sessions : WriteSource(s)
  \/ \E s \in Sessions : CheckerReads(s)
  \/ \E s \in Sessions : ReturnResult(s)

-----------------------------------------------------------------------------
(* BoundedBufferSUT                                                          *)
(* (src/data/concurbench_20/02_producer_consumer/test_properties.py)         *)
(*                                                                           *)
(* not_full and not_empty are Conditions on the one lock.  Everything a      *)
(* thread does between taking the lock and giving it up (on return or in     *)
(* wait) is one step: no other thread can run a method's body meanwhile.     *)

\* Largest capacity a buffer is constructed with.
MaxCapacity == 2
\* Number of producer threads and of consumer threads.
MaxProducers == 2
MaxConsumers == 2
\* Largest number of put/try_put calls and of get/try_get calls made.
MaxPuts == 3
MaxGets == 2

Producers == 1..MaxProducers
Consumers == (MaxProducers + 1)..(MaxProducers + MaxConsumers)
Threads == Producers \cup Consumers

\* A thread's position: outside any call; called and about to take the lock;
\* inside Condition.wait and not yet awake; awake after a notify and about to
\* retake the lock; awake after its wait timed out and about to retake the
\* lock.
Positions == {"idle", "enter", "waiting", "notified", "timedout"}

\* The test of put and try_put that lets a full buffer through.
is_full_beyond(buf, cap) == Len(buf) > cap

\* len(self.buffer) >= self.capacity
is_full(buf, cap) == Len(buf) >= cap

\* len(self.buffer) == 0
is_empty(buf) == Len(buf) = 0

\* A pop that takes the newest item.
pop_last(buf) ==
  [item |-> buf[Len(buf)], rest |-> SubSeq(buf, 1, Len(buf) - 1)]

\* item = self.buffer.pop(0)
pop_first(buf) == [item |-> Head(buf), rest |-> Tail(buf)]

\* A notify that takes the waiter off the list without waking it.
wake_lost(position) == position

\* What Condition.notify does to the waiter it picks: a thread inside wait
\* wakes up; one whose wait has timed out already is awake.
wake(position) == IF position = "waiting" THEN "notified" ELSE position

\* What a call returned, when it is not None: an item of the buffer (get,
\* try_get) or a bool (try_put).
Item(v) == [item |-> v]
Bool(b) == [bool |-> b]

\* No thread has called the buffer of the given capacity yet.
BufferState(cap) ==
  /\ bb_capacity = cap
  /\ bb_buffer = <<>>
  /\ bb_enqueue_history = <<>>
  /\ bb_dequeue_history = <<>>
  /\ bb_pc = [t \in Threads |-> "idle"]
  /\ bb_op = [t \in Threads |-> None]
  /\ bb_expired = [t \in Threads |-> FALSE]
  /\ bb_returned = [t \in Threads |-> None]
  /\ bb_not_full = {}
  /\ bb_not_empty = {}
  /\ bb_calls = [put |-> 0, get |-> 0]

\* No buffer is in use.
BufferIdle == BufferState(0)

\* BoundedBufferSUT(capacity=...) and __post_init__
BufferInit == \E cap \in 1..MaxCapacity : BufferState(cap)

\* A producer thread calls put(item) or try_put(item, timeout) with a
\* positive timeout; the items are numbered in the order of the calls.
StartPut(t) ==
  /\ UNCHANGED notBufferVars
  /\ t \in Producers
  /\ bb_pc[t] = "idle"
  /\ bb_calls.put < MaxPuts
  /\ \E name \in {"put", "try_put"} :
       bb_op' = [bb_op EXCEPT ![t] = [name |-> name, item |-> bb_calls.put + 1]]
  /\ bb_calls' = [bb_calls EXCEPT !.put = @ + 1]
  /\ bb_pc' = [bb_pc EXCEPT ![t] = "enter"]
  /\ bb_expired' = [bb_expired EXCEPT ![t] = FALSE]
  /\ bb_returned' = [bb_returned EXCEPT ![t] = None]
  /\ UNCHANGED <<bb_capacity, bb_buffer, bb_enqueue_history, bb_dequeue_history,
                 bb_not_full, bb_not_empty>>

\* A consumer thread calls get() or try_get(timeout) with a positive timeout.
StartGet(t) ==
  /\ UNCHANGED notBufferVars
  /\ t \in Consumers
  /\ bb_pc[t] = "idle"
  /\ bb_calls.get < MaxGets
  /\ \E name \in {"get", "try_get"} :
       bb_op' = [bb_op EXCEPT ![t] = [name |-> name, item |-> None]]
  /\ bb_calls' = [bb_calls EXCEPT !.get = @ + 1]
  /\ bb_pc' = [bb_pc EXCEPT ![t] = "enter"]
  /\ bb_expired' = [bb_expired EXCEPT ![t] = FALSE]
  /\ bb_returned' = [bb_returned EXCEPT ![t] = None]
  /\ UNCHANGED <<bb_capacity, bb_buffer, bb_enqueue_history, bb_dequeue_history,
                 bb_not_full, bb_not_empty>>

\* A try_put that logs its item in enqueue_history although it timed out.
PutLoggingTimedOut(t) ==
  /\ UNCHANGED notBufferVars
  /\ t \in Producers
  /\ bb_pc[t] \in {"enter", "notified", "timedout"}
  /\ LET others == bb_not_full \ {t}
     IN  IF is_full(bb_buffer, bb_capacity)
         THEN /\ IF bb_op[t].name = "try_put" /\ bb_expired[t]
                 THEN /\ bb_pc' = [bb_pc EXCEPT ![t] = "idle"]
                      /\ bb_returned' = [bb_returned EXCEPT ![t] = Bool(FALSE)]
                      /\ bb_not_full' = others
                      /\ bb_enqueue_history' =
                           Append(bb_enqueue_history, bb_op[t].item)
                 ELSE /\ bb_pc' = [bb_pc EXCEPT ![t] = "waiting"]
                      /\ bb_not_full' = others \cup {t}
                      /\ UNCHANGED <<bb_returned, bb_enqueue_history>>
              /\ UNCHANGED <<bb_buffer, bb_not_empty>>
         ELSE /\ bb_buffer' = Append(bb_buffer, bb_op[t].item)
              /\ bb_enqueue_history' = Append(bb_enqueue_history, bb_op[t].item)
              /\ bb_not_full' = others
              /\ bb_returned' = [bb_returned EXCEPT ![t] =
                                   IF bb_op[t].name = "try_put" THEN Bool(TRUE)
                                   ELSE None]
              /\ IF bb_not_empty = {}
                 THEN /\ bb_pc' = [bb_pc EXCEPT ![t] = "idle"]
                      /\ UNCHANGED bb_not_empty
                 ELSE \E w \in bb_not_empty :
                        /\ bb_not_empty' = bb_not_empty \ {w}
                        /\ bb_pc' = [bb_pc EXCEPT ![t] = "idle", ![w] = wake(@)]
  /\ UNCHANGED <<bb_capacity, bb_dequeue_history, bb_op, bb_expired, bb_calls>>

\* The body of put and of try_put, run with the lock held: from the start of
\* the call, or from the return of wait.  A full buffer sends the thread (back)
\* into wait, or out of try_put with False once the timeout has expired;
\* otherwise the item is appended and one waiter of not_empty is notified.
Put(t) ==
  /\ UNCHANGED notBufferVars
  /\ t \in Producers
  /\ bb_pc[t] \in {"enter", "notified", "timedout"}
  /\ LET others == bb_not_full \ {t}
     IN  IF is_full(bb_buffer, bb_capacity)
         THEN /\ IF bb_op[t].name = "try_put" /\ bb_expired[t]
                 THEN /\ bb_pc' = [bb_pc EXCEPT ![t] = "idle"]
                      /\ bb_returned' = [bb_returned EXCEPT ![t] = Bool(FALSE)]
                      /\ bb_not_full' = others
                 ELSE /\ bb_pc' = [bb_pc EXCEPT ![t] = "waiting"]
                      /\ bb_not_full' = others \cup {t}
                      /\ UNCHANGED bb_returned
              /\ UNCHANGED <<bb_buffer, bb_enqueue_history, bb_not_empty>>
         ELSE /\ bb_buffer' = Append(bb_buffer, bb_op[t].item)
              /\ bb_enqueue_history' = Append(bb_enqueue_history, bb_op[t].item)
              /\ bb_not_full' = others
              /\ bb_returned' = [bb_returned EXCEPT ![t] =
                                   IF bb_op[t].name = "try_put" THEN Bool(TRUE)
                                   ELSE None]
              /\ IF bb_not_empty = {}
                 THEN /\ bb_pc' = [bb_pc EXCEPT ![t] = "idle"]
                      /\ UNCHANGED bb_not_empty
                 ELSE \E w \in bb_not_empty :
                        /\ bb_not_empty' = bb_not_empty \ {w}
                        /\ bb_pc' = [bb_pc EXCEPT ![t] = "idle", ![w] = wake(@)]
  /\ UNCHANGED <<bb_capacity, bb_dequeue_history, bb_op, bb_expired, bb_calls>>

\* The body of get and of try_get, run with the lock held.  An empty buffer
\* sends the thread (back) into wait, or out of try_get with None once the
\* timeout has expired; otherwise the oldest item is popped and one waiter of
\* not_full is notified.
Get(t) ==
  /\ UNCHANGED notBufferVars
  /\ t \in Consumers
  /\ bb_pc[t] \in {"enter", "notified", "timedout"}
  /\ LET others == bb_not_empty \ {t}
     IN  IF is_empty(bb_buffer)
         THEN /\ IF bb_op[t].name = "try_get" /\ bb_expired[t]
                 THEN /\ bb_pc' = [bb_pc EXCEPT ![t] = "idle"]
                      /\ bb_returned' = [bb_returned EXCEPT ![t] = None]
                      /\ bb_not_empty' = others
                 ELSE /\ bb_pc' = [bb_pc EXCEPT ![t] = "waiting"]
                      /\ bb_not_empty' = others \cup {t}
                      /\ UNCHANGED bb_returned
              /\ UNCHANGED <<bb_buffer, bb_dequeue_history, bb_not_full>>
         ELSE /\ bb_buffer' = pop_first(bb_buffer).rest
              /\ bb_dequeue_history' =
                   Append(bb_dequeue_history, pop_first(bb_buffer).item)
              /\ bb_not_empty' = others
              /\ bb_returned' =
                   [bb_returned EXCEPT ![t] = Item(pop_first(bb_buffer).item)]
              /\ IF bb_not_full = {}
                 THEN /\ bb_pc' = [bb_pc EXCEPT ![t] = "idle"]
                      /\ UNCHANGED bb_not_full
                 ELSE \E w \in bb_not_full :
                        /\ bb_not_full' = bb_not_full \ {w}
                        /\ bb_pc' = [bb_pc EXCEPT ![t] = "idle", ![w] = wake(@)]
  /\ UNCHANGED <<bb_capacity, bb_enqueue_history, bb_op, bb_expired, bb_calls>>

\* The timeout of a try_put or try_get call expires while the thread is inside
\* wait(remaining), or while it is about to retake the lock after a notify.
\* A thread inside wait wakes up; it stays on the waiter list until it has
\* retaken the lock.
WaitTimesOut(t) ==
  /\ UNCHANGED notBufferVars
  /\ bb_pc[t] \in {"waiting", "notified"}
  /\ bb_op[t].name \in {"try_put", "try_get"}
  /\ ~bb_expired[t]
  /\ bb_expired' = [bb_expired EXCEPT ![t] = TRUE]
  /\ bb_pc' = [bb_pc EXCEPT ![t] = IF @ = "waiting" THEN "timedout" ELSE @]
  /\ UNCHANGED <<bb_capacity, bb_buffer, bb_enqueue_history, bb_dequeue_history,
                 bb_op, bb_returned, bb_not_full, bb_not_empty, bb_calls>>

BufferNext ==
  \/ \E t \in Threads : StartPut(t)
  \/ \E t \in Threads : StartGet(t)
  \/ \E t \in Threads : Put(t)
  \/ \E t \in Threads : Get(t)
  \/ \E t \in Threads : WaitTimesOut(t)

-----------------------------------------------------------------------------
(* LRUCacheSUT                                                               *)
(* (src/data/concurbench_20/03_concurrent_cache/test_properties.py)          *)
(*                                                                           *)
(* self.cache is an OrderedDict: a sequence of entries, the least recently   *)
(* used first.  Every method runs its whole body inside "with self.lock", so *)
(* a body is one step; the threads differ in the order they get the lock.    *)

\* Largest capacity a cache is constructed with.
MaxCacheCapacity == 2
\* Number of threads that call the cache.
MaxCacheThreads == 2
\* Largest number of get, put and delete calls made.
MaxCacheCalls == 4

CacheThreads == 1..MaxCacheThreads
CacheKeys == {"k1", "k2", "k3"}
CacheOps == {"get", "put", "delete"}

\* The keys of an OrderedDict, in its order.
keys_of(cache) == [i \in 1..Len(cache) |-> cache[i].key]

\* key in self.cache
has_key(cache, key) == \E i \in 1..Len(cache) : cache[i].key = key

\* self.cache[key], for a key that is there
value_of(cache, key) ==
  LET i == CHOOSE j \in 1..Len(cache) : cache[j].key = key IN cache[i].value

\* self.cache.pop(key) / del self.cache[key]: the dict without the key
without(cache, key) == SelectSeq(cache, LAMBDA e : e.key # key)

\* self.cache[key] = value, for a key that is not there: a new last entry
with_last(cache, key, value) == Append(cache, [key |-> key, value |-> value])

\* What a call returned, when it is not None: the value of a get, the key a
\* put evicted.
Value(v) == [value |-> v]
Evicted(k) == [evicted |-> k]

\* LRUCacheSUT.get: the dict after the call and what the call returns.
lru_get(cache, key) ==
  IF has_key(cache, key)
  THEN [cache |-> with_last(without(cache, key), key, value_of(cache, key)),
        returned |-> Value(value_of(cache, key))]
  ELSE [cache |-> cache, returned |-> None]

\* A put that evicts the newest entry of a full cache.
lru_put_evicting_last(cache, capacity, key, value) ==
  IF has_key(cache, key)
  THEN [cache |-> with_last(without(cache, key), key, value), returned |-> None]
  ELSE IF Len(cache) >= capacity
  THEN [cache |-> with_last(SubSeq(cache, 1, Len(cache) - 1), key, value),
        returned |-> Evicted(cache[Len(cache)].key)]
  ELSE [cache |-> with_last(cache, key, value), returned |-> None]

\* A put that makes room only once the cache is over its capacity.
lru_put_late(cache, capacity, key, value) ==
  IF has_key(cache, key)
  THEN [cache |-> with_last(without(cache, key), key, value), returned |-> None]
  ELSE IF Len(cache) > capacity
  THEN [cache |-> with_last(Tail(cache), key, value),
        returned |-> Evicted(Head(cache).key)]
  ELSE [cache |-> with_last(cache, key, value), returned |-> None]

\* LRUCacheSUT.put: popitem(last=False) takes the first entry.
lru_put(cache, capacity, key, value) ==
  IF has_key(cache, key)
  THEN [cache |-> with_last(without(cache, key), key, value), returned |-> None]
  ELSE IF Len(cache) >= capacity
  THEN [cache |-> with_last(Tail(cache), key, value),
        returned |-> Evicted(Head(cache).key)]
  ELSE [cache |-> with_last(cache, key, value), returned |-> None]

\* LRUCacheSUT.delete
lru_delete(cache, key) ==
  IF has_key(cache, key)
  THEN [cache |-> without(cache, key), returned |-> Bool(TRUE)]
  ELSE [cache |-> cache, returned |-> Bool(FALSE)]

\* No thread has called the cache of the given capacity yet.
CacheState(cap) ==
  /\ lru_capacity = cap
  /\ lru_cache = <<>>
  /\ lru_access_history = <<>>
  /\ lru_pc = [t \in CacheThreads |-> "idle"]
  /\ lru_op = [t \in CacheThreads |-> None]
  /\ lru_returned = [t \in CacheThreads |-> None]

\* No cache is in use.
CacheIdle == CacheState(0)

\* LRUCacheSUT(capacity=...), with a capacity of at least 1
CacheInit == \E cap \in 1..MaxCacheCapacity : CacheState(cap)

\* The calls made so far: those that ran and those waiting for the lock.
CacheCallsMade ==
  Len(lru_access_history) + Cardinality({t \in CacheThreads : lru_pc[t] = "enter"})

\* A thread calls get(key), put(key, value) or delete(key); the values are
\* numbered in the order of the calls.
CacheCall(t) ==
  /\ UNCHANGED notCacheVars
  /\ lru_pc[t] = "idle"
  /\ CacheCallsMade < MaxCacheCalls
  /\ \E name \in CacheOps, key \in CacheKeys :
       lru_op' = [lru_op EXCEPT ![t] =
                    [name |-> name, key |-> key, value |-> CacheCallsMade + 1]]
  /\ lru_pc' = [lru_pc EXCEPT ![t] = "enter"]
  /\ lru_returned' = [lru_returned EXCEPT ![t] = None]
  /\ UNCHANGED <<lru_capacity, lru_cache, lru_access_history>>

\* self.access_history.append((name, key, threading.current_thread().ident))
accessed(log, t) ==
  Append(log, [name |-> lru_op[t].name, key |-> lru_op[t].key, thread |-> t])

\* The body of get, run with the lock held.
CacheGet(t) ==
  /\ UNCHANGED notCacheVars
  /\ lru_pc[t] = "enter"
  /\ lru_op[t].name = "get"
  /\ \E r \in {lru_get(lru_cache, lru_op[t].key)} :
       /\ lru_cache' = r.cache
       /\ lru_returned' = [lru_returned EXCEPT ![t] = r.returned]
  /\ lru_access_history' = accessed(lru_access_history, t)
  /\ lru_pc' = [lru_pc EXCEPT ![t] = "idle"]
  /\ UNCHANGED <<lru_capacity, lru_op>>

\* The body of put, run with the lock held.
CachePut(t) ==
  /\ UNCHANGED notCacheVars
  /\ lru_pc[t] = "enter"
  /\ lru_op[t].name = "put"
  /\ \E r \in {lru_put(lru_cache, lru_capacity, lru_op[t].key, lru_op[t].value)} :
       /\ lru_cache' = r.cache
       /\ lru_returned' = [lru_returned EXCEPT ![t] = r.returned]
  /\ lru_access_history' = accessed(lru_access_history, t)
  /\ lru_pc' = [lru_pc EXCEPT ![t] = "idle"]
  /\ UNCHANGED <<lru_capacity, lru_op>>

\* The body of delete, run with the lock held.
CacheDelete(t) ==
  /\ UNCHANGED notCacheVars
  /\ lru_pc[t] = "enter"
  /\ lru_op[t].name = "delete"
  /\ \E r \in {lru_delete(lru_cache, lru_op[t].key)} :
       /\ lru_cache' = r.cache
       /\ lru_returned' = [lru_returned EXCEPT ![t] = r.returned]
  /\ lru_access_history' = accessed(lru_access_history, t)
  /\ lru_pc' = [lru_pc EXCEPT ![t] = "idle"]
  /\ UNCHANGED <<lru_capacity, lru_op>>

CacheNext ==
  \/ \E t \in CacheThreads : CacheCall(t)
  \/ \E t \in CacheThreads : CacheGet(t)
  \/ \E t \in CacheThreads : CachePut(t)
  \/ \E t \in CacheThreads : CacheDelete(t)

-----------------------------------------------------------------------------
(* TokenBucketSUT                                                            *)
(* (src/data/concurbench_20/04_rate_limiter/test_properties.py)              *)
(*                                                                           *)
(* Time is counted in whole seconds and the rate in whole tokens per second, *)
(* so the token count stays a whole number.  The clock never goes back.  A   *)
(* method body runs with the lock held and is one step, up to the point      *)
(* where acquire_blocking gives the lock up inside condition.wait; nothing   *)
(* ever calls condition.notify, so a wait ends only when its timeout has     *)
(* run out.                                                                  *)

\* Largest capacity and largest rate a limiter is constructed with.
MaxBucketCapacity == 2
MaxRate == 1
\* Largest number of tokens asked for in one call.
MaxTokens == 2
\* Largest timeout passed to acquire_blocking.
MaxTimeout == 1
\* Last second of the clock.
MaxTime == 2
\* Number of threads that call the limiter.
MaxBucketThreads == 2
\* Largest number of calls made.
MaxBucketCalls == 3

BucketThreads == 1..MaxBucketThreads

\* The timeout argument of acquire_blocking: None, or a number of seconds.
NoTimeout == [given |-> FALSE, seconds |-> 0]
Timeouts ==
  {NoTimeout} \cup {[given |-> TRUE, seconds |-> s] : s \in 0..MaxTimeout}

Min(a, b) == IF a <= b THEN a ELSE b

\* A refill that counts the seconds since the limiter was made.
refill_since_creation(current, last_update, now, rate, capacity) ==
  Min(capacity, current + now * rate)

\* A refill that is not cut off at the capacity.
refill_unbounded(current, last_update, now, rate, capacity) ==
  current + (now - last_update) * rate

\* _refill: min(self.capacity, self.current_tokens + elapsed * self.rate)
refill(current, last_update, now, rate, capacity) ==
  Min(capacity, current + (now - last_update) * rate)

\* deadline = time.time() + timeout if timeout else None: a timeout of None
\* and a timeout of 0 both give no deadline.
deadline_of(now, timeout) ==
  IF timeout.given /\ timeout.seconds # 0
  THEN [timed |-> TRUE, at |-> now + timeout.seconds]
  ELSE [timed |-> FALSE, at |-> 0]

\* What available_tokens returned.
Tokens(n) == [tokens |-> n]

\* An entry of acquisition_history.
acquisition(kind, tokens, now) == [kind |-> kind, tokens |-> tokens, time |-> now]

\* The limiter of the given rate and capacity right after __post_init__, at
\* second 0.
BucketState(rate, capacity) ==
  /\ tb_rate = rate
  /\ tb_capacity = capacity
  /\ tb_current_tokens = capacity
  /\ tb_last_update = 0
  /\ tb_now = 0
  /\ tb_acquisition_history = <<>>
  /\ tb_pc = [t \in BucketThreads |-> "idle"]
  /\ tb_op = [t \in BucketThreads |-> None]
  /\ tb_wait = [t \in BucketThreads |-> None]
  /\ tb_returned = [t \in BucketThreads |-> None]
  /\ tb_calls = 0

\* No limiter is in use.
BucketIdle == BucketState(0, 0)

\* TokenBucketSUT(rate=..., capacity=...)
BucketInit ==
  \E rate \in 0..MaxRate, capacity \in 1..MaxBucketCapacity :
    BucketState(rate, capacity)

\* A second passes.
Tick ==
  /\ UNCHANGED notBucketVars
  /\ tb_now < MaxTime
  /\ tb_now' = tb_now + 1
  /\ UNCHANGED <<tb_rate, tb_capacity, tb_current_tokens, tb_last_update,
                 tb_acquisition_history, tb_pc, tb_op, tb_wait, tb_returned,
                 tb_calls>>

\* A thread calls acquire(tokens), acquire_blocking(tokens, timeout) or
\* available_tokens(), with a positive number of tokens; acquire_blocking
\* works out its deadline before it takes the lock.  A timeout ends within
\* the seconds of the clock.
BucketCall(t) ==
  /\ UNCHANGED notBucketVars
  /\ tb_pc[t] = "idle"
  /\ tb_calls < MaxBucketCalls
  /\ \/ \E tokens \in 1..MaxTokens :
          tb_op' = [tb_op EXCEPT ![t] =
                      [name |-> "acquire", tokens |-> tokens, timeout |-> NoTimeout,
                       deadline |-> deadline_of(tb_now, NoTimeout),
                       called |-> tb_now]]
     \/ \E tokens \in 1..MaxTokens, timeout \in Timeouts :
          /\ tb_now + timeout.seconds <= MaxTime
          /\ tb_op' = [tb_op EXCEPT ![t] =
                         [name |-> "acquire_blocking", tokens |-> tokens,
                          timeout |-> timeout,
                          deadline |-> deadline_of(tb_now, timeout),
                          called |-> tb_now]]
     \/ tb_op' = [tb_op EXCEPT ![t] =
                    [name |-> "available_tokens", tokens |-> 0,
                     timeout |-> NoTimeout,
                     deadline |-> deadline_of(tb_now, NoTimeout),
                     called |-> tb_now]]
  /\ tb_pc' = [tb_pc EXCEPT ![t] = "enter"]
  /\ tb_returned' = [tb_returned EXCEPT ![t] = None]
  /\ tb_calls' = tb_calls + 1
  /\ UNCHANGED <<tb_rate, tb_capacity, tb_current_tokens, tb_last_update, tb_now,
                 tb_acquisition_history, tb_wait>>

\* An acquire that, short of tokens, takes what there is and returns False.
AcquireTakingTheRest(t) ==
  /\ UNCHANGED notBucketVars
  /\ tb_pc[t] = "enter"
  /\ tb_op[t].name = "acquire"
  /\ \E current \in {refill(tb_current_tokens, tb_last_update, tb_now, tb_rate,
                            tb_capacity)} :
       IF current >= tb_op[t].tokens
       THEN /\ tb_current_tokens' = current - tb_op[t].tokens
            /\ tb_acquisition_history' =
                 Append(tb_acquisition_history,
                        acquisition("acquire_success", tb_op[t].tokens, tb_now))
            /\ tb_returned' = [tb_returned EXCEPT ![t] = Bool(TRUE)]
       ELSE /\ tb_current_tokens' = 0
            /\ tb_acquisition_history' =
                 Append(tb_acquisition_history,
                        acquisition("acquire_failure", tb_op[t].tokens, tb_now))
            /\ tb_returned' = [tb_returned EXCEPT ![t] = Bool(FALSE)]
  /\ tb_last_update' = tb_now
  /\ tb_pc' = [tb_pc EXCEPT ![t] = "idle"]
  /\ UNCHANGED <<tb_rate, tb_capacity, tb_now, tb_op, tb_wait, tb_calls>>

\* The body of acquire, run with the lock held.
Acquire(t) ==
  /\ UNCHANGED notBucketVars
  /\ tb_pc[t] = "enter"
  /\ tb_op[t].name = "acquire"
  /\ \E current \in {refill(tb_current_tokens, tb_last_update, tb_now, tb_rate,
                            tb_capacity)} :
       IF current >= tb_op[t].tokens
       THEN /\ tb_current_tokens' = current - tb_op[t].tokens
            /\ tb_acquisition_history' =
                 Append(tb_acquisition_history,
                        acquisition("acquire_success", tb_op[t].tokens, tb_now))
            /\ tb_returned' = [tb_returned EXCEPT ![t] = Bool(TRUE)]
       ELSE /\ tb_current_tokens' = current
            /\ tb_acquisition_history' =
                 Append(tb_acquisition_history,
                        acquisition("acquire_failure", tb_op[t].tokens, tb_now))
            /\ tb_returned' = [tb_returned EXCEPT ![t] = Bool(FALSE)]
  /\ tb_last_update' = tb_now
  /\ tb_pc' = [tb_pc EXCEPT ![t] = "idle"]
  /\ UNCHANGED <<tb_rate, tb_capacity, tb_now, tb_op, tb_wait, tb_calls>>

\* The body of available_tokens, run with the lock held.
AvailableTokens(t) ==
  /\ UNCHANGED notBucketVars
  /\ tb_pc[t] = "enter"
  /\ tb_op[t].name = "available_tokens"
  /\ \E current \in {refill(tb_current_tokens, tb_last_update, tb_now, tb_rate,
                            tb_capacity)} :
       /\ tb_current_tokens' = current
       /\ tb_returned' = [tb_returned EXCEPT ![t] = Tokens(current)]
  /\ tb_last_update' = tb_now
  /\ tb_pc' = [tb_pc EXCEPT ![t] = "idle"]
  /\ UNCHANGED <<tb_rate, tb_capacity, tb_now, tb_acquisition_history, tb_op,
                 tb_wait, tb_calls>>

\* One round of the loop of acquire_blocking, run with the lock held, from
\* taking the lock (at the call or after a wait) to the return or to the next
\* wait.  The clock may move on (by later seconds) between the test of the
\* deadline and the reading that gives remaining.
AcquireBlocking(t) ==
  /\ UNCHANGED notBucketVars
  /\ tb_pc[t] = "enter"
  /\ tb_op[t].name = "acquire_blocking"
  /\ \E current \in {refill(tb_current_tokens, tb_last_update, tb_now, tb_rate,
                            tb_capacity)} :
       IF current >= tb_op[t].tokens
       THEN /\ tb_current_tokens' = current - tb_op[t].tokens
            /\ tb_acquisition_history' =
                 Append(tb_acquisition_history,
                        acquisition("acquire_blocking_success", tb_op[t].tokens,
                                    tb_now))
            /\ tb_returned' = [tb_returned EXCEPT ![t] = Bool(TRUE)]
            /\ tb_pc' = [tb_pc EXCEPT ![t] = "idle"]
            /\ UNCHANGED <<tb_now, tb_wait>>
       ELSE IF tb_op[t].deadline.timed /\ tb_now >= tb_op[t].deadline.at
       THEN /\ tb_current_tokens' = current
            /\ tb_acquisition_history' =
                 Append(tb_acquisition_history,
                        acquisition("acquire_blocking_timeout", tb_op[t].tokens,
                                    tb_now))
            /\ tb_returned' = [tb_returned EXCEPT ![t] = Bool(FALSE)]
            /\ tb_pc' = [tb_pc EXCEPT ![t] = "idle"]
            /\ UNCHANGED <<tb_now, tb_wait>>
       ELSE \E later \in tb_now..Min(tb_now + 1, MaxTime) :
              /\ tb_now' = later
              /\ tb_current_tokens' = current
              /\ UNCHANGED tb_acquisition_history
              /\ IF tb_op[t].deadline.timed /\ tb_op[t].deadline.at - later <= 0
                 THEN /\ tb_returned' = [tb_returned EXCEPT ![t] = Bool(FALSE)]
                      /\ tb_pc' = [tb_pc EXCEPT ![t] = "idle"]
                      /\ UNCHANGED tb_wait
                 ELSE /\ tb_wait' = [tb_wait EXCEPT ![t] =
                                       [since |-> later,
                                        needed |-> tb_op[t].tokens - current,
                                        timed |-> tb_op[t].deadline.timed,
                                        remaining |->
                                          IF tb_op[t].deadline.timed
                                          THEN tb_op[t].deadline.at - later
                                          ELSE 0]]
                      /\ tb_pc' = [tb_pc EXCEPT ![t] = "waiting"]
                      /\ UNCHANGED tb_returned
  /\ tb_last_update' = tb_now
  /\ UNCHANGED <<tb_rate, tb_capacity, tb_op, tb_calls>>

\* condition.wait(timeout=min(wait_time, remaining)) has run out, where
\* wait_time is needed / rate (1.0 for a rate of 0): the thread is awake and
\* about to retake the lock.
WaitRunsOut(t) ==
  /\ UNCHANGED notBucketVars
  /\ tb_pc[t] = "waiting"
  /\ \E elapsed \in {tb_now - tb_wait[t].since} :
       \/ tb_rate > 0 /\ elapsed * tb_rate >= tb_wait[t].needed
       \/ tb_rate = 0 /\ elapsed >= 1
       \/ tb_wait[t].timed /\ elapsed >= tb_wait[t].remaining
  /\ tb_pc' = [tb_pc EXCEPT ![t] = "enter"]
  /\ UNCHANGED <<tb_rate, tb_capacity, tb_current_tokens, tb_last_update, tb_now,
                 tb_acquisition_history, tb_op, tb_wait, tb_returned, tb_calls>>

BucketNext ==
  \/ Tick
  \/ \E t \in BucketThreads : BucketCall(t)
  \/ \E t \in BucketThreads : Acquire(t)
  \/ \E t \in BucketThreads : AvailableTokens(t)
  \/ \E t \in BucketThreads : AcquireBlocking(t)
  \/ \E t \in BucketThreads : WaitRunsOut(t)

-----------------------------------------------------------------------------
(* TDDRunner (src/baselines/baseline_2_tdd.py) *)

\* Largest max_iterations a runner is constructed with.
MaxIterations == 3

\* Number of trailing characters of the pytest output kept in the feedback.
OutputLimit == 2000

\* A piece of text: what it says and how many characters it has.
Text(what, n) == [text |-> what, chars |-> n]

\* The code blocks a response can hold.  A block has the language tag of its
\* fence and the code between the fences, already stripped; a code says
\* whether "def " or "class " occurs in it.
Code(what, n, defines) == [text |-> what, chars |-> n, defines |-> defines]
EmptyCode == Code("", 0, FALSE)
Block(lang, code) == [lang |-> lang, code |-> code]

\* The responses of the agent: no code block, an empty python block, one
\* python block, two python blocks (the second one longer), an untagged block
\* that is not Python and an untagged block that is.
Responses ==
  {<<>>,
   <<Block("python", EmptyCode)>>,
   <<Block("python", Code("def f", 5, TRUE))>>,
   <<Block("python", Code("def f", 5, TRUE)),
     Block("python", Code("class A", 7, TRUE))>>,
   <<Block("", Code("x = 1", 5, FALSE))>>,
   <<Block("", Code("class A", 7, TRUE))>>}

\* max(matches, key=len): the first of the longest blocks.
longest(blocks) ==
  blocks[CHOOSE i \in 1..Len(blocks) :
           /\ \A j \in 1..Len(blocks) : blocks[j].code.chars <= blocks[i].code.chars
           /\ \A j \in 1..(i - 1) : blocks[j].code.chars < blocks[i].code.chars].code

\* An extraction that takes any untagged block for code.
_extract_any_block(response) ==
  LET matches == SelectSeq(response, LAMBDA b : b.lang = "python")
  IN  IF matches # <<>> THEN longest(matches)
      ELSE IF response # <<>> THEN longest(response)
      ELSE EmptyCode

\* TDDRunner._extract_python_code
_extract_python_code(response) ==
  LET matches == SelectSeq(response, LAMBDA b : b.lang = "python")
  IN  IF matches # <<>> THEN longest(matches)
      ELSE IF response # <<>> /\ longest(response).defines THEN longest(response)
      ELSE EmptyCode

\* What subprocess.run(["pytest", ...], timeout=10) does: the process runs to
\* completion with an exit status and an output, the timeout expires, or the
\* call raises another exception.
PytestRuns ==
  {[run |-> "completed", returncode |-> 0, output |-> Text("passed", 100)],
   [run |-> "completed", returncode |-> 1, output |-> Text("failed", 100)],
   [run |-> "completed", returncode |-> 1, output |-> Text("failed", 2500)],
   [run |-> "TimeoutExpired", returncode |-> 0, output |-> Text("", 0)],
   [run |-> "Exception", returncode |-> 0, output |-> Text("", 0)]}

\* TDDRunner._run_pytest: (passed, output)
_run_pytest(env) ==
  CASE env.run = "completed" ->
         [success |-> env.returncode = 0, output |-> env.output]
    [] env.run = "TimeoutExpired" ->
         [success |-> FALSE,
          output |-> Text("Timeout: Tests took too long to execute. Check for infinite loops.", 70)]
    [] OTHER ->
         [success |-> FALSE, output |-> Text("System Error running pytest: str(e)", 35)]

\* test_output[-2000:] if len(test_output) > 2000 else test_output
truncated_output(test_output) ==
  IF test_output.chars > OutputLimit
  THEN Text(test_output.text, OutputLimit)
  ELSE test_output

\* The values of feedback.
InitialFeedback == [kind |-> "Initial Request", output |-> Text("", 0)]
NoCodeFeedback == [kind |-> "Error: no code block", output |-> Text("", 0)]
pytest_feedback(test_output) ==
  [kind |-> "pytest output (failures)", output |-> truncated_output(test_output)]

\* The messages of the conversation.
user_msg(feedback) == [role |-> "user", content |-> feedback]
assistant_msg(response) == [role |-> "assistant", content |-> response]

NoFiles == [solution |-> None, final_solution |-> None, failed_solution |-> None]

TddState(position, max_iterations) ==
  /\ tdd_pc = position
  /\ tdd_max_iterations = max_iterations
  /\ tdd_iteration = 0
  /\ tdd_messages = <<>>
  /\ tdd_feedback = InitialFeedback
  /\ tdd_current_code = EmptyCode
  /\ tdd_files = NoFiles
  /\ tdd_calls = [sample_kernel |-> 0, _run_pytest |-> 0, passed |-> 0,
                  solution |-> 0]

TddIdle == TddState("idle", 0)

\* TDDRunner(max_iterations) followed by the call of run_benchmark.
TddInit == \E n \in 0..MaxIterations : TddState("setup", n)

\* The test file is missing: the call returns before the loop.
TestFileNotFound ==
  /\ UNCHANGED notTddVars
  /\ tdd_pc = "setup"
  /\ tdd_pc' = "returned without tests"
  /\ UNCHANGED <<tdd_max_iterations, tdd_iteration, tdd_messages, tdd_feedback,
                 tdd_current_code, tdd_files, tdd_calls>>

\* The tests are copied and the intent is read; current_code = "",
\* feedback = "Initial Request: ...", messages = [].
Setup ==
  /\ UNCHANGED notTddVars
  /\ tdd_pc = "setup"
  /\ tdd_pc' = "loop"
  /\ tdd_current_code' = EmptyCode
  /\ tdd_feedback' = InitialFeedback
  /\ tdd_messages' = <<>>
  /\ UNCHANGED <<tdd_max_iterations, tdd_iteration, tdd_files, tdd_calls>>

\* An iteration whose response holds no code: the feedback asks for a code
\* block and the loop continues.
IterationWithoutCode ==
  /\ UNCHANGED notTddVars
  /\ tdd_pc = "loop"
  /\ tdd_iteration < tdd_max_iterations
  /\ \E response \in Responses :
       /\ _extract_python_code(response) = EmptyCode
       /\ tdd_current_code' = _extract_python_code(response)
  /\ tdd_messages' = Append(tdd_messages, user_msg(tdd_feedback))
  /\ tdd_calls' = [tdd_calls EXCEPT !.sample_kernel = @ + 1]
  /\ tdd_feedback' = NoCodeFeedback
  /\ tdd_iteration' = tdd_iteration + 1
  /\ UNCHANGED <<tdd_pc, tdd_max_iterations, tdd_files>>

\* A passing iteration after which the loop goes on.
IterationPassesAndGoesOn ==
  /\ UNCHANGED notTddVars
  /\ tdd_pc = "loop"
  /\ tdd_iteration < tdd_max_iterations
  /\ \E response \in Responses : \E env \in PytestRuns :
       \E code \in {_extract_python_code(response)} :
         /\ code # EmptyCode
         /\ _run_pytest(env).success
         /\ tdd_current_code' = code
         /\ tdd_files' = [tdd_files EXCEPT !.solution = code,
                                            !.final_solution = code]
  /\ tdd_messages' = Append(tdd_messages, user_msg(tdd_feedback))
  /\ tdd_calls' = [tdd_calls EXCEPT !.sample_kernel = @ + 1,
                                    !._run_pytest = @ + 1,
                                    !.passed = @ + 1,
                                    !.solution = @ + 1]
  /\ tdd_iteration' = tdd_iteration + 1
  /\ UNCHANGED <<tdd_pc, tdd_max_iterations, tdd_feedback>>

\* An iteration whose code passes the tests: final_solution.py is written and
\* the call returns.
IterationPasses ==
  /\ UNCHANGED notTddVars
  /\ tdd_pc = "loop"
  /\ tdd_iteration < tdd_max_iterations
  /\ \E response \in Responses : \E env \in PytestRuns :
       \E code \in {_extract_python_code(response)} :
         /\ code # EmptyCode
         /\ _run_pytest(env).success
         /\ tdd_current_code' = code
         /\ tdd_files' = [tdd_files EXCEPT !.solution = code,
                                            !.final_solution = code]
  /\ tdd_messages' = Append(tdd_messages, user_msg(tdd_feedback))
  /\ tdd_calls' = [tdd_calls EXCEPT !.sample_kernel = @ + 1,
                                    !._run_pytest = @ + 1,
                                    !.passed = @ + 1,
                                    !.solution = @ + 1]
  /\ tdd_iteration' = tdd_iteration + 1
  /\ tdd_pc' = "returned"
  /\ UNCHANGED <<tdd_max_iterations, tdd_feedback>>

\* An iteration whose code fails the tests: the pytest output becomes the
\* feedback and the response is appended to the messages.
IterationFails ==
  /\ UNCHANGED notTddVars
  /\ tdd_pc = "loop"
  /\ tdd_iteration < tdd_max_iterations
  /\ \E response \in Responses : \E env \in PytestRuns :
       \E code \in {_extract_python_code(response)} :
         /\ code # EmptyCode
         /\ ~_run_pytest(env).success
         /\ tdd_current_code' = code
         /\ tdd_files' = [tdd_files EXCEPT !.solution = code]
         /\ tdd_feedback' = pytest_feedback(_run_pytest(env).output)
         /\ tdd_messages' = tdd_messages \o <<user_msg(tdd_feedback),
                                              assistant_msg(response)>>
  /\ tdd_calls' = [tdd_calls EXCEPT !.sample_kernel = @ + 1,
                                    !._run_pytest = @ + 1,
                                    !.solution = @ + 1]
  /\ tdd_iteration' = tdd_iteration + 1
  /\ UNCHANGED <<tdd_pc, tdd_max_iterations>>

\* The loop has run max_iterations times: failed_solution.py is written with
\* current_code.
LoopEnds ==
  /\ UNCHANGED notTddVars
  /\ tdd_pc = "loop"
  /\ ~(tdd_iteration < tdd_max_iterations)
  /\ tdd_files' = [tdd_files EXCEPT !.failed_solution = tdd_current_code]
  /\ tdd_pc' = "returned"
  /\ UNCHANGED <<tdd_max_iterations, tdd_iteration, tdd_messages, tdd_feedback,
                 tdd_current_code, tdd_calls>>

TddNext ==
  \/ TestFileNotFound
  \/ Setup
  \/ IterationWithoutCode
  \/ IterationPasses
  \/ IterationFails
  \/ LoopEnds

-----------------------------------------------------------------------------
(* Specifications *)

\* One solve call on a fresh Orchestrator.
InitSolve ==
  SolveInit /\ ParseIdle /\ PotentialIdle /\ WorkspaceIdle /\ BufferIdle
  /\ CacheIdle /\ BucketIdle /\ TddIdle
SpecSolve == InitSolve /\ [][SolveNext]_vars

\* One parse call on every output within the bound.
\* Up to MaxSolveCalls solve calls on one Orchestrator.
SpecSolveAgain == InitSolve /\ [][SolveAgainNext]_vars

InitParse ==
  ParseInit /\ SolveIdle /\ PotentialIdle /\ WorkspaceIdle /\ BufferIdle
  /\ CacheIdle /\ BucketIdle /\ TddIdle
NextParse == Parse
SpecParse == InitParse /\ [][NextParse]_vars

\* One compute call on every artifact and result within the bounds.
InitPotential ==
  PotentialInit /\ SolveIdle /\ ParseIdle /\ WorkspaceIdle /\ BufferIdle
  /\ CacheIdle /\ BucketIdle /\ TddIdle
NextPotential == Compute
SpecPotential == InitPotential /\ [][NextPotential]_vars

\* Verify calls of the sessions on one workspace, in any interleaving.
InitWorkspace ==
  WorkspaceInit /\ SolveIdle /\ ParseIdle /\ PotentialIdle /\ BufferIdle
  /\ CacheIdle /\ BucketIdle /\ TddIdle
SpecWorkspace == InitWorkspace /\ [][WorkspaceNext]_vars

\* Producer and consumer threads on one BoundedBufferSUT, in any interleaving.
InitBuffer ==
  BufferInit /\ SolveIdle /\ ParseIdle /\ PotentialIdle /\ WorkspaceIdle
  /\ CacheIdle /\ BucketIdle /\ TddIdle
SpecBuffer == InitBuffer /\ [][BufferNext]_vars

\* The same under weak fairness of the threads: a thread that is ready to
\* take the lock and run the body of its call does so in the end.  Nothing
\* makes a thread start a call, and nothing makes a timeout expire.
BufferFairness ==
  /\ \A t \in Producers : WF_vars(Put(t))
  /\ \A t \in Consumers : WF_vars(Get(t))
SpecBufferFair == InitBuffer /\ [][BufferNext]_vars /\ BufferFairness

\* Threads calling one LRUCacheSUT.
InitCache ==
  CacheInit /\ SolveIdle /\ ParseIdle /\ PotentialIdle /\ WorkspaceIdle
  /\ BufferIdle /\ BucketIdle /\ TddIdle
SpecCache == InitCache /\ [][CacheNext]_vars

\* Threads calling one TokenBucketSUT while the clock runs.
InitBucket ==
  BucketInit /\ SolveIdle /\ ParseIdle /\ PotentialIdle /\ WorkspaceIdle
  /\ BufferIdle /\ CacheIdle /\ TddIdle
SpecBucket == InitBucket /\ [][BucketNext]_vars

\* The same with a clock that runs on to its last second and threads that
\* are scheduled again and again.
BucketFairness ==
  /\ WF_vars(Tick)
  /\ \A t \in BucketThreads :
       /\ WF_vars(Acquire(t))
       /\ WF_vars(AvailableTokens(t))
       /\ WF_vars(AcquireBlocking(t))
       /\ WF_vars(WaitRunsOut(t))
SpecBucketFair == InitBucket /\ [][BucketNext]_vars /\ BucketFairness

\* One run_benchmark call on a fresh TDDRunner.
InitTdd ==
  TddInit /\ SolveIdle /\ ParseIdle /\ PotentialIdle /\ WorkspaceIdle
  /\ BufferIdle /\ CacheIdle /\ BucketIdle
SpecTdd == InitTdd /\ [][TddNext]_vars

\* The same with a thread that runs on: the call is one thread of synchronous
\* calls, sample_kernel returns a text whatever the API does (agents/base.py
\* falls back to a simulated response) and the pytest process is stopped
\* after 10 seconds.
TddFairness == WF_vars(TddNext)
SpecTddFair == InitTdd /\ [][TddNext]_vars /\ TddFairness

-----------------------------------------------------------------------------
(* Properties of Orchestrator.solve (under SpecSolve) *)

\* Iterations started so far: one sample_kernel call each.
Iterations == calls.sample_kernel

AllNotOk == \A i \in 1..Len(outcomes) : outcomes[i] # OK

\* What is left of the budget, counted in loop positions: it falls with every
\* step of the loop.
Variant ==
  3 * (max_refinement_steps - step)
    + (CASE pc = "loop" -> 2 [] pc = "verify" -> 1 [] OTHER -> 0)

\* C1: whatever statuses verify returns, the loop runs at most
\* max_refinement_steps iterations (one sample and one verify each), every
\* step of the loop uses up budget and another step is always possible, and
\* the loop ends by returning an artifact or None; the one other way out of
\* the loop is an exception that escapes verify.
C1_LoopBounded ==
  /\ [](/\ Iterations <= max_refinement_steps
        /\ calls.verify <= Iterations
        /\ Iterations <= calls.verify + 1
        /\ MachineState = "REFINING" => (Variant >= 0 /\ ENABLED SolveNext))
  /\ [][MachineState = "REFINING" =>
          IF MachineState' = "REFINING" THEN Variant' < Variant
          ELSE \/ MachineState' = "SUCCESS" /\ returned' \in Artifacts
               \/ MachineState' = "FAILURE" /\ returned' = None
               \/ raised_by' = "verify"]_vars

C1_Witness ==
  /\ pc = "failure"
  /\ max_refinement_steps >= 2
  /\ Iterations = max_refinement_steps
  /\ calls.verify = max_refinement_steps
  /\ \E i, j \in 1..Len(outcomes) : outcomes[i] = ERR_LG /\ outcomes[j] = ERR_TOOL

\* C2: when verify returns OK at iteration s, solve returns the candidate of
\* iteration s at once: nothing is appended to the history for that
\* iteration, no further sample or verify call is made, and the proof script
\* of the candidate is not looked at.
C2_OkReturnsCandidate ==
  /\ [](pc = "success" =>
          /\ returned = candidate
          /\ verification_result.status = OK
          /\ Len(outcomes) = step + 1
          /\ outcomes[step + 1] = OK
          /\ \A i \in 1..step : outcomes[i] # OK
          /\ Iterations = step + 1
          /\ calls.verify = step + 1
          /\ Len(history) = step
          /\ ~ENABLED SolveNext)
  /\ []((pc = "branch" /\ verification_result.status = OK) => ENABLED ReturnCandidate)
  /\ [][(pc = "branch" /\ verification_result.status = OK) =>
          /\ pc' = "success"
          /\ returned' = candidate
          /\ history' = history
          /\ calls' = calls]_vars

C2_Witness ==
  /\ pc = "success"
  /\ step >= 1
  /\ returned.proof_script = <<"sorry">>

\* C3: solve returns None exactly when every one of the max_refinement_steps
\* iterations ended with a status other than OK; then exactly
\* max_refinement_steps iterations ran and the history holds that many entries.
C3_NoneIffAllFailed ==
  /\ [](pc \in {"success", "failure"} =>
          /\ (returned = None) <=> (pc = "failure")
          /\ (pc = "failure") <=>
               (Len(outcomes) = max_refinement_steps /\ AllNotOk))
  /\ [](pc = "failure" =>
          /\ step = max_refinement_steps
          /\ Iterations = max_refinement_steps
          /\ calls.verify = max_refinement_steps
          /\ Len(history) = max_refinement_steps)
  /\ [][(pc = "loop" /\ Len(outcomes) = max_refinement_steps) =>
          (pc' = "failure" /\ returned' = None)]_vars

C3_Witness ==
  /\ pc = "failure"
  /\ returned = None
  /\ max_refinement_steps = 3
  /\ outcomes = <<ERR_LG, ERR_LG, ERR_LG>>
  /\ Len(history) = 3

\* C4: the history is append-only within a solve call: a step never shrinks
\* it or changes an entry it holds, an iteration appends at most one entry,
\* and it never holds more than max_refinement_steps entries.
C4_HistoryAppendOnly ==
  /\ [](/\ Len(history) <= max_refinement_steps
        /\ Len(history) <= Iterations)
  /\ [][/\ Len(history') \in {Len(history), Len(history) + 1}
        /\ SubSeq(history', 1, Len(history)) = history
        /\ Len(history') = Len(history) + 1 => pc = "branch"]_vars

C4_Witness ==
  /\ Len(history) >= 2
  /\ history[1].step = 0
  /\ history[2].step = 1
  /\ pc = "loop"

\* The transitions of the state machine of section 4.1, and the ways an
\* exception leaves the call.
MachineTransitions ==
  {<<"FORMALIZING", "EMBEDDING">>, <<"EMBEDDING", "REFINING">>,
   <<"REFINING", "REFINING">>, <<"REFINING", "SUCCESS">>,
   <<"REFINING", "FAILURE">>}
ExceptionExits ==
  {<<"FORMALIZING", "RAISED">>, <<"EMBEDDING", "RAISED">>,
   <<"REFINING", "RAISED">>}

\* C5: solve starts in FORMALIZING and moves FORMALIZING -> EMBEDDING ->
\* REFINING; REFINING stays REFINING after ERR_LG and after ERR_TOOL, FAILURE
\* is entered only at the step bound and SUCCESS only on OK, both only from
\* REFINING, and nothing leaves SUCCESS or FAILURE.
C5_StateMachine ==
  /\ MachineState = "FORMALIZING"
  /\ [][/\ <<MachineState, MachineState'>> \in MachineTransitions \cup ExceptionExits
        /\ (pc = "branch" /\ verification_result.status \in {ERR_LG, ERR_TOOL})
             => (MachineState' = "REFINING" /\ pc' = "loop")
        /\ MachineState' = "FAILURE" =>
             (MachineState = "REFINING" /\ step = max_refinement_steps)
        /\ MachineState' = "SUCCESS" =>
             (MachineState = "REFINING" /\ verification_result.status = OK)
        /\ MachineState \notin {"SUCCESS", "FAILURE"}]_vars

C5_Witness ==
  /\ MachineState = "FAILURE"
  /\ max_refinement_steps = 2
  /\ outcomes = <<ERR_TOOL, ERR_LG>>

\* C6: no exception escapes verify: whatever the file system and the checker
\* process do, verify returns, and a failed write, launch or run gives a
\* result with status ERR_TOOL.
C6_VerifyNeverRaises ==
  /\ raised_by # "verify"
  /\ (/\ pc = "branch"
      /\ (oracle_env.write # "written" \/ oracle_env.run # "completed"))
       => verification_result.status = ERR_TOOL

\* C7: a failure of formalize or embed leaves solve as an exception, without a
\* retry: the failing collaborator was called once, no sample_kernel or verify
\* call and no history or metrics record was made, and embed is not called
\* after a formalize failure.
C7_SetupFailureIsFatal ==
  /\ calls.formalize <= 1
  /\ calls.embed <= 1
  /\ raised_by \in {"formalize", "embed"} =>
       /\ pc = "raised"
       /\ ~ENABLED SolveNext
       /\ calls.formalize = 1
       /\ calls.embed = (IF raised_by = "embed" THEN 1 ELSE 0)
       /\ calls.sample_kernel = 0
       /\ calls.verify = 0
       /\ history = <<>>
       /\ metrics = [iterations |-> <<>>, semantic_potential |-> <<>>]
       /\ returned = None

C7_Witness ==
  /\ pc = "raised"
  /\ raised_by = "embed"
  /\ calls.formalize = 1
  /\ calls.embed = 1

-----------------------------------------------------------------------------
(* Properties of FeedbackParser.parse (under SpecParse) *)

\* The substrings whose presence marks a tool failure.
ToolIndicators ==
  {"timeout", "deadline", "out of memory", "segmentation fault",
   "unknown package", "no such file"}

\* stdout or stderr holds a tool indicator, in any casing.
HasToolIndicator ==
  \E out \in {p_stdout, p_stderr} : \E i \in 1..Len(out) :
    /\ LowerName(out[i][1]) \in ToolIndicators
    /\ out[i][2] = CharsOf(out[i][1])

\* stdout or stderr holds a generic "error:" marker.
HasErrorMarker ==
  \E out \in {p_stdout, p_stderr} : \E i \in 1..Len(out) :
    out[i] \in {Tok("error:"), Tok("Error:")}

\* C8 as stated: parse returns exactly one Status, and every output that holds
\* a tool indicator is classified ERR_TOOL, even next to an "error:" marker.
C8_ToolIndicatorAlwaysErrTool ==
  p_done =>
    /\ p_result.status \in Status
    /\ HasToolIndicator => p_result.status = ERR_TOOL

\* C8 amended: parse returns exactly one Status, and every output of a run
\* with a non-zero exit status that holds a tool indicator is classified
\* ERR_TOOL, even next to an "error:" marker.
C8_ToolIndicatorErrToolWhenFailed ==
  p_done =>
    /\ p_result.status \in Status
    /\ (p_return_code # 0 /\ HasToolIndicator) => p_result.status = ERR_TOOL

C8_Witness ==
  /\ p_done
  /\ p_return_code # 0
  /\ HasToolIndicator
  /\ HasErrorMarker
  /\ p_result.status = ERR_TOOL

\* C9: for every result of parse, return code 0, status OK and
\* unsolved_goals_count 0 are equivalent.
C9_SuccessInvariant ==
  p_done =>
    /\ (p_return_code = 0) <=> (p_result.status = OK)
    /\ (p_result.status = OK) <=> (p_result.unsolved_goals_count = 0)

\* C10: with return code 0 parse returns status OK, unsolved_goals_count 0 and
\* the feedback that states success, whatever stdout and stderr hold.
C10_ExitZeroIsOk ==
  (p_done /\ p_return_code = 0) =>
    /\ p_result.status = OK
    /\ p_result.unsolved_goals_count = 0
    /\ p_result.feedback = <<Tok("The proof is correct. No errors found.")>>

C10_Witness ==
  /\ p_done
  /\ p_return_code = 0
  /\ HasToolIndicator
  /\ HasErrorMarker
  /\ p_result.status = OK

\* stdout or stderr holds the phrase "unsolved goals".
HasUnsolvedGoals ==
  contains(p_stdout, "unsolved goals") \/ contains(p_stderr, "unsolved goals")

\* The output ends with a "case " that nothing but whitespace follows.
EndsWithCase ==
  LET out == p_stdout \o <<NL>> \o p_stderr
      text == {i \in 1..Len(out) : ~IsSpace(out[i])}
  IN  /\ text # {}
      /\ out[CHOOSE i \in text : \A j \in text : j <= i] = Tok("case ")

\* Occurrences of "case " in stdout and stderr.
CaseOccurrences == count(p_stdout, "case ") + count(p_stderr, "case ")

\* Occurrences of "case " in the combined output once the whitespace at its
\* two ends is removed.
TrimmedCaseOccurrences == CaseOccurrences - (IF EndsWithCase THEN 1 ELSE 0)

\* C11 as stated: for every output that holds "unsolved goals" the count of
\* the result is at least 1, and it is the number of occurrences of "case "
\* when that number exceeds 1.
C11_GoalCountLowerBound ==
  (p_done /\ HasUnsolvedGoals) =>
    /\ p_result.unsolved_goals_count >= 1
    /\ CaseOccurrences > 1 => p_result.unsolved_goals_count = CaseOccurrences

\* C11 amended: for every output that holds "unsolved goals" and is classified
\* ERR_LG (non-zero exit status, no tool indicator) the count of the result is
\* at least 1, and it is the number of occurrences of "case " in the trimmed
\* combined output when that number exceeds 1.
C11_GoalCountLowerBoundWhenLogical ==
  (p_done /\ HasUnsolvedGoals /\ p_return_code # 0 /\ ~HasToolIndicator) =>
    /\ p_result.status = ERR_LG
    /\ p_result.unsolved_goals_count >= 1
    /\ TrimmedCaseOccurrences > 1 =>
         p_result.unsolved_goals_count = TrimmedCaseOccurrences

C11_Witness ==
  /\ p_done
  /\ HasUnsolvedGoals
  /\ p_result.status = ERR_LG
  /\ CaseOccurrences = 2
  /\ p_result.unsolved_goals_count = 2

-----------------------------------------------------------------------------
(* Properties of PotentialCalculator.compute (under SpecPotential) *)

\* The admitted markers of the artifact handed to compute.
SorryCount == _count_sorry_tokens(phi_artifact.proof_script)

\* Every weight of the instance is greater than 0.
PositiveWeights ==
  /\ phi_weights.w_goals > 0
  /\ phi_weights.w_sorry > 0
  /\ phi_weights.w_error > 0

\* C12 as stated: for every artifact and every result, a missing one included,
\* the potential is 0 exactly when the result has status OK and the artifact
\* holds no admitted marker.
C12_PotentialZeroIff ==
  phi_done =>
    ((phi_value = 0) <=>
       (IF phi_result = None THEN FALSE
        ELSE phi_result.status = OK /\ SorryCount = 0))

\* C12 amended: for every artifact and positive weights, when a result is
\* given the potential is 0 exactly when its status is OK and the artifact
\* holds no admitted marker; when no result is given the potential is 0
\* exactly when the artifact holds no admitted marker.
C12_PotentialZeroIffGivenResult ==
  (phi_done /\ PositiveWeights) =>
    /\ phi_value >= 0
    /\ (phi_value = 0) <=>
         (IF phi_result = None THEN SorryCount = 0
          ELSE phi_result.status = OK /\ SorryCount = 0)

C12_Witness ==
  /\ phi_done
  /\ PositiveWeights
  /\ phi_result # None
  /\ phi_result.status = OK
  /\ SorryCount = 0
  /\ \E i \in 1..Len(phi_artifact.proof_script) :
       phi_artifact.proof_script[i] = "sorry"
  /\ phi_value = 0

-----------------------------------------------------------------------------
(* More properties of Orchestrator.solve (under SpecSolve) *)

\* The outcomes the branch on the status has dealt with so far.
Handled == IF pc = "branch" THEN Len(outcomes) - 1 ELSE Len(outcomes)

\* The iterations (counted from 1) dealt with that ended in a tool error.
ToolErrorsHandled == {i \in 1..Handled : outcomes[i] = ERR_TOOL}

\* The iteration of the k-th tool error.
KthToolError(k) ==
  CHOOSE i \in ToolErrorsHandled :
    Cardinality({j \in ToolErrorsHandled : j <= i}) = k

\* 1.5 ** i as a fraction
ExpectedDelay(i) ==
  IF i = 1 THEN <<3, 2>> ELSE <<Pow(3, i), Pow(2, i)>>

\* C13: a tool error at step s is followed by one sleep of
\* backoff_factor ** (s + 1) (3/2 at step 0) before the next iteration, the
\* exponent being the step index and not the number of tool errors so far; a
\* logical error is followed by no sleep.
C13_BackoffDelay ==
  /\ [](/\ Len(sleeps) = Cardinality(ToolErrorsHandled)
        /\ \A k \in 1..Len(sleeps) : sleeps[k] = ExpectedDelay(KthToolError(k)))
  /\ [][/\ (pc = "branch" /\ verification_result.status = ERR_TOOL) =>
             /\ sleeps' = Append(sleeps, ExpectedDelay(step + 1))
             /\ pc' = "loop"
        /\ (pc = "branch" /\ verification_result.status = ERR_LG) =>
             /\ sleeps' = sleeps
             /\ pc' = "loop"
        /\ sleeps' # sleeps =>
             (pc = "branch" /\ verification_result.status = ERR_TOOL)]_vars

C13_Witness ==
  /\ pc = "verify"
  /\ step = 2
  /\ outcomes = <<ERR_LG, ERR_TOOL>>
  /\ sleeps = << <<9, 4>> >>

ToolErrors == Cardinality({i \in 1..Len(outcomes) : outcomes[i] = ERR_TOOL})

\* C15: an iteration that ends in a tool error and one that ends in a logical
\* error both advance step by exactly one, nothing else changes step, and the
\* loop goes on exactly while step is below the bound.  So step counts the
\* iterations dealt with, tool errors included, and the candidates sampled
\* apart from the k that met a tool error number at most
\* max_refinement_steps - k.
C15_ToolErrorsUseBudget ==
  /\ [](/\ pc # "success" => step = Handled
        /\ Cardinality(ToolErrorsHandled) <= step
        /\ ToolErrors <= Iterations
        /\ Iterations - ToolErrors <= max_refinement_steps - ToolErrors
        /\ pc = "loop" => (ENABLED Sample <=> step < max_refinement_steps))
  /\ [][/\ (pc = "branch" /\ verification_result.status \in {ERR_LG, ERR_TOOL})
             => step' = step + 1
        /\ step' # step => (pc = "branch" /\ step' = step + 1)]_vars

C15_Witness ==
  /\ pc = "failure"
  /\ max_refinement_steps = 3
  /\ outcomes = <<ERR_TOOL, ERR_LG, ERR_TOOL>>
  /\ Iterations = 3
  /\ step = 3

\* C16: every iteration whose verify call returned appends exactly one pair
\* (step, unsolved_goals_count of the result) to the metrics, whatever the
\* status, OK and ERR_TOOL included, and nothing else touches the metrics; the
\* two sequences have the same length at all times, entry i is about step
\* i - 1, and when solve returns their length is the number of iterations
\* started.
C16_MetricsOncePerIteration ==
  /\ [](/\ Len(metrics.iterations) = Len(metrics.semantic_potential)
        /\ Len(metrics.iterations) = Handled
        /\ \A i \in 1..Len(metrics.iterations) : metrics.iterations[i] = i - 1
        /\ pc \in {"success", "failure"} => Len(metrics.iterations) = Iterations)
  /\ [][/\ pc = "branch" =>
             /\ verification_result.status \in Status
             /\ metrics'.iterations = Append(metrics.iterations, step)
             /\ metrics'.semantic_potential =
                  Append(metrics.semantic_potential,
                         verification_result.unsolved_goals_count)
        /\ metrics' # metrics => pc = "branch"]_vars

C16_Witness ==
  /\ pc = "success"
  /\ outcomes = <<ERR_TOOL, ERR_LG, OK>>
  /\ metrics.iterations = <<0, 1, 2>>
  /\ metrics.semantic_potential = <<0, 2, 0>>

-----------------------------------------------------------------------------
(* Properties of verify calls that share a workspace (under SpecWorkspace) *)

\* The source unit of session s: what its verify call writes for its artifact.
OwnSource(s) == full_content(WorkspaceSpec, ws_artifact[s])

\* The checker process of session s has read a source that is not the one
\* session s wrote.
ReadForeignSource(s) ==
  /\ ws_pc[s] \in {"wait", "returned"}
  /\ ws_read[s] # OwnSource(s)

\* Session s was handed a result that is not the verdict on its own artifact.
WrongResult(s) ==
  /\ ws_pc[s] = "returned"
  /\ ws_result[s] #
       verify(WorkspaceSpec, ws_artifact[s], timeout_per_verification,
              env_of(OwnSource(s))).result

\* C17: a checker run on a source other than the caller's own, and with it a
\* result that belongs to another candidate, happens only to a verify call
\* during which another call was in flight on the workspace; a call that had
\* the workspace to itself reads its own source and returns the verdict on
\* its own artifact.
C17_CorruptionNeedsOverlap ==
  \A s \in Sessions :
    /\ ReadForeignSource(s) => ws_overlapped[s]
    /\ WrongResult(s) => ws_overlapped[s]
    /\ (~ws_overlapped[s] /\ ws_pc[s] \in {"wait", "returned"}) =>
         ws_read[s] = OwnSource(s)
    /\ (~ws_overlapped[s] /\ ws_pc[s] = "returned") =>
         ws_result[s].status =
           (IF ws_artifact[s].proof_script = <<"trivial">> THEN OK ELSE ERR_LG)

\* Two calls in flight: the run of one session read the source of the other
\* session's candidate, and that session got the other candidate's verdict.
C17_Witness ==
  \E s, t \in Sessions :
    /\ s # t
    /\ ws_artifact[s] # ws_artifact[t]
    /\ ws_pc[s] = "returned"
    /\ ws_overlapped[s]
    /\ ws_artifact[t] # None
    /\ ws_read[s] = OwnSource(t)
    /\ WrongResult(s)
    /\ ws_result[s].status = OK
    /\ ws_artifact[s].proof_script = <<"simp">>

-----------------------------------------------------------------------------
(* Properties of BoundedBufferSUT (under SpecBuffer) *)

\* C18: whatever the threads do, the buffer never holds more items than its
\* capacity (and never fewer than none), and an item is appended only to a
\* buffer that is not full and popped only from one that is not empty.
C18_BoundedCapacity ==
  /\ [](/\ 0 <= Len(bb_buffer)
        /\ Len(bb_buffer) <= bb_capacity
        /\ bb_capacity <= MaxCapacity)
  /\ [][/\ Len(bb_buffer') > Len(bb_buffer) =>
             (Len(bb_buffer) < bb_capacity /\ Len(bb_buffer') = Len(bb_buffer) + 1)
        /\ Len(bb_buffer') < Len(bb_buffer) =>
             (Len(bb_buffer) > 0 /\ Len(bb_buffer') = Len(bb_buffer) - 1)]_vars

\* The buffer is full after items went in and out, and a producer waits for a
\* slot.
C18_Witness ==
  /\ Len(bb_buffer) = bb_capacity
  /\ Len(bb_dequeue_history) >= 1
  /\ \E p \in Producers : bb_pc[p] = "waiting"

\* C19: the items taken out followed by the items in the buffer are the items
\* put in, in the same order: nothing is lost, nothing comes out twice or out
\* of order, and what a get or try_get returns is the item it appended to the
\* dequeue history.
C19_FifoNoLossNoDup ==
  /\ [](/\ bb_dequeue_history \o bb_buffer = bb_enqueue_history
        /\ \A i, j \in 1..Len(bb_enqueue_history) :
             bb_enqueue_history[i] = bb_enqueue_history[j] => i = j
        /\ Len(bb_dequeue_history) <= Len(bb_enqueue_history)
        /\ SubSeq(bb_enqueue_history, 1, Len(bb_dequeue_history)) = bb_dequeue_history)
  /\ [][/\ Len(bb_dequeue_history') >= Len(bb_dequeue_history)
        /\ SubSeq(bb_dequeue_history', 1, Len(bb_dequeue_history)) = bb_dequeue_history
        /\ SubSeq(bb_enqueue_history', 1, Len(bb_enqueue_history)) = bb_enqueue_history
        /\ bb_dequeue_history' # bb_dequeue_history =>
             \E t \in Consumers :
               /\ bb_pc[t] # "idle"
               /\ bb_pc'[t] = "idle"
               /\ bb_returned'[t] = Item(bb_dequeue_history'[Len(bb_dequeue_history')])
               /\ bb_returned'[t] = Item(Head(bb_buffer))]_vars

\* Items were accepted in another order than the calls were made, two buffered
\* items wait behind one that was taken out.
C19_Witness ==
  /\ Len(bb_buffer) = 2
  /\ Len(bb_dequeue_history) = 1
  /\ bb_enqueue_history[1] # 1
  /\ bb_dequeue_history \o bb_buffer = bb_enqueue_history

-----------------------------------------------------------------------------
(* Properties of BoundedBufferSUT under fair threads (under SpecBufferFair) *)

\* Thread t is inside wait and the condition it waits for holds.
BlockedInVain(t) ==
  /\ bb_pc[t] = "waiting"
  /\ IF t \in Producers THEN ~is_full(bb_buffer, bb_capacity)
     ELSE ~is_empty(bb_buffer)

\* C20: a producer never inserts into a full buffer and a consumer never takes
\* from an empty one; a thread inside wait leaves it only by a notify or a
\* timeout; a get that pops an item while producers are on the waiter list of
\* not_full takes one of them off and wakes it, and a put does the same for
\* the consumers on not_empty; a thread that comes back from wait with the
\* lock inserts (takes) if there is room (an item), and otherwise waits again
\* or, in try_put and try_get after the timeout, gives up.  With fair threads
\* every thread that was woken runs in the end, and no thread stays inside
\* wait forever while its condition holds.
C20_BlockingAndWakeUp ==
  /\ [][/\ bb_enqueue_history' # bb_enqueue_history =>
             ~is_full(bb_buffer, bb_capacity)
        /\ bb_dequeue_history' # bb_dequeue_history => ~is_empty(bb_buffer)
        /\ \A t \in Threads :
             (bb_pc[t] = "waiting" /\ bb_pc'[t] # "waiting") =>
               bb_pc'[t] \in {"notified", "timedout"}
        /\ (Len(bb_buffer') < Len(bb_buffer) /\ bb_not_full # {}) =>
             \E w \in bb_not_full :
               /\ bb_not_full' = bb_not_full \ {w}
               /\ bb_pc[w] = "waiting" => bb_pc'[w] = "notified"
        /\ (Len(bb_buffer') > Len(bb_buffer) /\ bb_not_empty # {}) =>
             \E w \in bb_not_empty :
               /\ bb_not_empty' = bb_not_empty \ {w}
               /\ bb_pc[w] = "waiting" => bb_pc'[w] = "notified"
        /\ \A t \in Producers :
             (bb_pc[t] \in {"notified", "timedout"} /\ bb_pc'[t] # bb_pc[t]) =>
               IF ~is_full(bb_buffer, bb_capacity)
               THEN /\ bb_pc'[t] = "idle"
                    /\ bb_buffer' = Append(bb_buffer, bb_op[t].item)
               ELSE IF bb_op[t].name = "try_put" /\ bb_expired[t]
               THEN bb_pc'[t] = "idle" /\ bb_returned'[t] = Bool(FALSE)
               ELSE bb_pc'[t] = "waiting"
        /\ \A t \in Consumers :
             (bb_pc[t] \in {"notified", "timedout"} /\ bb_pc'[t] # bb_pc[t]) =>
               IF ~is_empty(bb_buffer)
               THEN /\ bb_pc'[t] = "idle"
                    /\ bb_returned'[t] = Item(Head(bb_buffer))
               ELSE IF bb_op[t].name = "try_get" /\ bb_expired[t]
               THEN bb_pc'[t] = "idle" /\ bb_returned'[t] = None
               ELSE bb_pc'[t] = "waiting"]_vars
  /\ \A t \in Threads : (bb_pc[t] = "notified") ~> (bb_pc[t] # "notified")
  /\ \A t \in Threads : []<>(~BlockedInVain(t))

\* A get has woken a producer that waited on the full buffer and a put has
\* woken a consumer that waited on the empty one; neither has run yet.
C20_Witness ==
  /\ \E p \in Producers : bb_pc[p] = "notified"
  /\ \E c \in Consumers : bb_pc[c] = "notified"
  /\ Len(bb_dequeue_history) >= 1

\* C20 as first stated: with fair threads, a producer inside put that a get
\* has woken completes its insert, and a consumer inside get that a put has
\* woken completes its take.
C20_WokenThreadCompletes ==
  /\ \A t \in Producers :
       (bb_pc[t] = "notified" /\ bb_op[t].name = "put") ~> (bb_pc[t] = "idle")
  /\ \A t \in Consumers :
       (bb_pc[t] = "notified" /\ bb_op[t].name = "get") ~> (bb_pc[t] = "idle")

-----------------------------------------------------------------------------
(* Properties of LRUCacheSUT (under SpecCache) *)

\* The keys left by one get, put or delete of key k applied whole to the keys
\* ks of a cache of capacity cap.
KeysAfter(ks, cap, name, k) ==
  LET present == \E i \in 1..Len(ks) : ks[i] = k
      rest == SelectSeq(ks, LAMBDA x : x # k)
  IN  CASE name = "get" -> IF present THEN Append(rest, k) ELSE ks
        [] name = "put" -> IF present THEN Append(rest, k)
                           ELSE IF Len(ks) >= cap THEN Append(Tail(ks), k)
                           ELSE Append(ks, k)
        [] OTHER -> rest

\* The keys left by the first n calls of the access history, applied one after
\* the other to an empty cache.
RECURSIVE KeysAfterCalls(_, _, _)
KeysAfterCalls(log, cap, n) ==
  IF n = 0 THEN <<>>
  ELSE KeysAfter(KeysAfterCalls(log, cap, n - 1), cap, log[n].name, log[n].key)

\* C21: whatever the threads do, the cache never holds more entries than its
\* capacity, no key is in it twice, and its content is what the calls give
\* when each is applied whole, one after the other, in the order the access
\* history records them.
C21_CapacityAndUniqueKeys ==
  /\ Len(lru_cache) <= lru_capacity
  /\ \A i, j \in 1..Len(lru_cache) :
       lru_cache[i].key = lru_cache[j].key => i = j
  /\ keys_of(lru_cache) =
       KeysAfterCalls(lru_access_history, lru_capacity, Len(lru_access_history))

\* Both threads have had calls run, one of them a put that evicted a key from
\* the full cache, the cache is full again and another call waits for the lock.
C21_Witness ==
  /\ lru_capacity = 2
  /\ Len(lru_cache) = lru_capacity
  /\ \E t \in CacheThreads : \E k \in CacheKeys : lru_returned[t] = Evicted(k)
  /\ \E t \in CacheThreads : lru_pc[t] = "enter"
  /\ \A t \in CacheThreads :
       \E i \in 1..Len(lru_access_history) : lru_access_history[i].thread = t

\* The position in the access history of the latest get or put of key k (0 when
\* there is none): for a key in the cache, the moment of its latest use.
LastAccess(log, k) ==
  LET uses == {i \in 1..Len(log) : log[i].key = k /\ log[i].name \in {"get", "put"}}
  IN  IF uses = {} THEN 0 ELSE CHOOSE i \in uses : \A j \in uses : j <= i

\* The keys in the cache.
PresentKeys == {lru_cache[i].key : i \in 1..Len(lru_cache)}

\* C22: the cache keeps its keys in the order of their latest use (a put of a
\* key and a get that hits it make it the most recently used); a put of a new
\* key into a full cache evicts and returns the key whose latest use is the
\* oldest, and no other key; every other put returns None and evicts nothing;
\* a get evicts nothing and returns the value of the key it hits.
C22_EvictsLeastRecentlyUsed ==
  /\ [](\A i, j \in 1..Len(lru_cache) :
          i < j => LastAccess(lru_access_history, lru_cache[i].key)
                     < LastAccess(lru_access_history, lru_cache[j].key))
  /\ [][LET n == Len(lru_access_history)
            e == lru_access_history'[n + 1]
        IN  (Len(lru_access_history') = n + 1 /\ e.name # "delete") =>
              /\ (e.name = "put" \/ has_key(lru_cache, e.key)) =>
                   /\ has_key(lru_cache', e.key)
                   /\ lru_cache'[Len(lru_cache')].key = e.key
              /\ (e.name = "get" /\ ~has_key(lru_cache, e.key)) =>
                   /\ lru_cache' = lru_cache
                   /\ lru_returned'[e.thread] = None
              /\ IF e.name = "put" /\ ~has_key(lru_cache, e.key)
                    /\ Len(lru_cache) >= lru_capacity
                 THEN \E v \in PresentKeys :
                        /\ \A w \in PresentKeys :
                             LastAccess(lru_access_history, v)
                               <= LastAccess(lru_access_history, w)
                        /\ lru_returned'[e.thread] = Evicted(v)
                        /\ ~has_key(lru_cache', v)
                        /\ \A w \in PresentKeys \ {v} : has_key(lru_cache', w)
                 ELSE /\ \A w \in PresentKeys : has_key(lru_cache', w)
                      /\ e.name = "put" => lru_returned'[e.thread] = None
                      /\ (e.name = "get" /\ has_key(lru_cache, e.key)) =>
                           lru_returned'[e.thread]
                             = Value(value_of(lru_cache, e.key))]_vars

\* Two keys were put into a cache of capacity 2, a get hit the older one, and
\* the put of a third key has evicted the other one.
C22_Witness ==
  /\ lru_capacity = 2
  /\ Len(lru_access_history) = 4
  /\ lru_access_history[1].name = "put"
  /\ lru_access_history[2].name = "put"
  /\ lru_access_history[3].name = "get"
  /\ lru_access_history[4].name = "put"
  /\ lru_access_history[3].key = lru_access_history[1].key
  /\ lru_access_history[2].key # lru_access_history[1].key
  /\ lru_pc[lru_access_history[4].thread] = "idle"
  /\ lru_returned[lru_access_history[4].thread]
       = Evicted(lru_access_history[2].key)
  /\ has_key(lru_cache, lru_access_history[1].key)

-----------------------------------------------------------------------------
(* Properties of TokenBucketSUT (under SpecBucket) *)

\* C23: whatever the threads do and however the clock runs, the number of
\* tokens in the bucket is never negative and never above the capacity, and
\* so is every number available_tokens returns.
C23_TokensWithinBounds ==
  /\ 0 <= tb_current_tokens
  /\ tb_current_tokens <= tb_capacity
  /\ \A t \in BucketThreads :
       (tb_pc[t] = "idle" /\ tb_op[t] # None) =>
         (tb_op[t].name = "available_tokens" =>
            \E n \in 0..tb_capacity : tb_returned[t] = Tokens(n))

\* One token of two was taken at second 0; two seconds later the refill would
\* give three and the bucket holds two, while another thread is in a call.
C23_Witness ==
  /\ tb_capacity = 2
  /\ tb_rate = 1
  /\ tb_last_update = 2
  /\ tb_current_tokens = tb_capacity
  /\ \E i \in 1..Len(tb_acquisition_history) :
       tb_acquisition_history[i] = acquisition("acquire_success", 1, 0)
  /\ \E t \in BucketThreads : tb_returned[t] = Tokens(2)
  /\ \E t \in BucketThreads : tb_pc[t] # "idle"

\* The tokens handed out by the successful acquires among the first n entries
\* of the acquisition history that were made up to second T.
RECURSIVE HandedOut(_, _, _)
HandedOut(log, n, T) ==
  IF n = 0 THEN 0
  ELSE HandedOut(log, n - 1, T)
         + (IF /\ log[n].kind \in {"acquire_success", "acquire_blocking_success"}
               /\ log[n].time <= T
            THEN log[n].tokens ELSE 0)

\* C24: in every window that starts when the limiter is made (second 0) and
\* lasts T seconds, the successful acquires hand out at most
\* capacity + rate * T tokens; and what was handed out so far plus what is in
\* the bucket is at most capacity + rate * (the second of the last refill).
C24_RateEnforced ==
  /\ \A T \in 0..MaxTime :
       HandedOut(tb_acquisition_history, Len(tb_acquisition_history), T)
         <= tb_capacity + tb_rate * T
  /\ HandedOut(tb_acquisition_history, Len(tb_acquisition_history), MaxTime)
       + tb_current_tokens
       <= tb_capacity + tb_rate * tb_last_update

\* Both threads took tokens, and after two seconds everything the rate allows
\* has been handed out: capacity + rate * 2 tokens, more than the capacity.
C24_Witness ==
  /\ tb_rate = 1
  /\ tb_now = 2
  /\ HandedOut(tb_acquisition_history, Len(tb_acquisition_history), 2)
       = tb_capacity + tb_rate * 2
  /\ \E i, j \in 1..Len(tb_acquisition_history) :
       /\ tb_acquisition_history[i].kind = "acquire_success"
       /\ tb_acquisition_history[j].kind = "acquire_blocking_success"

-----------------------------------------------------------------------------
(* Properties of TokenBucketSUT with a running clock and fair threads        *)
(* (under SpecBucketFair)                                                    *)

\* Thread t is inside an acquire_blocking call that was given a timeout.
InTimedCall(t) ==
  /\ tb_pc[t] # "idle"
  /\ tb_op[t].name = "acquire_blocking"
  /\ tb_op[t].timeout.given

\* The second at which the timeout of t's call ends.
TimeoutEnds(t) == tb_op[t].called + tb_op[t].timeout.seconds

\* C25: an acquire_blocking call that was given a timeout never goes (back)
\* into wait once its timeout has ended; it returns False only when the
\* timeout has ended, and then takes no token; when it returns True it has
\* taken the requested tokens from the refilled bucket, once; and with a
\* running clock and fair threads it returns.
C25_BlockingRespectsTimeout ==
  /\ [][\A t \in BucketThreads :
          (InTimedCall(t) /\ tb_pc[t] = "enter" /\ tb_pc'[t] # "enter") =>
            LET current == refill(tb_current_tokens, tb_last_update, tb_now,
                                  tb_rate, tb_capacity)
            IN  /\ tb_pc'[t] = "waiting" => tb_now' < TimeoutEnds(t)
                /\ (tb_pc'[t] = "idle" /\ tb_returned'[t] = Bool(FALSE)) =>
                     /\ tb_now' >= TimeoutEnds(t)
                     /\ tb_current_tokens' = current
                /\ (tb_pc'[t] = "idle" /\ tb_returned'[t] = Bool(TRUE)) =>
                     /\ current >= tb_op[t].tokens
                     /\ tb_current_tokens' = current - tb_op[t].tokens
                     /\ tb_acquisition_history' =
                          Append(tb_acquisition_history,
                                 acquisition("acquire_blocking_success",
                                             tb_op[t].tokens, tb_now))]_vars
  /\ \A t \in BucketThreads : InTimedCall(t) ~> (tb_pc[t] = "idle")

-----------------------------------------------------------------------------
(* More properties of FeedbackParser.parse (under SpecParse) *)

\* stdout or stderr holds one of the given indicators, in any casing.
HasIndicatorOf(group) ==
  \E out \in {p_stdout, p_stderr} : \E i \in 1..Len(out) :
    /\ LowerName(out[i][1]) \in group
    /\ out[i][2] = CharsOf(out[i][1])

TimeoutIndicators == {"timeout", "deadline"}
ResourceIndicators == {"out of memory", "segmentation fault"}
EnvironmentIndicators == {"unknown package", "no such file"}

\* C26: for a non-zero exit status, an output that holds a tool indicator in
\* stdout or stderr, in any casing, is classified ERR_TOOL and never
\* ERR_LOGICAL, with the summary of the first group present in the order
\* Timeout, Resource Exhaustion, Environment Error; only an output without any
\* indicator reaches the logical analysis.
C26_ToolChecksOrdered ==
  (p_done /\ p_return_code # 0) =>
    /\ HasIndicatorOf(TimeoutIndicators) =>
         /\ p_result.status = ERR_TOOL
         /\ p_result.summary = <<"Timeout">>
    /\ (~HasIndicatorOf(TimeoutIndicators) /\ HasIndicatorOf(ResourceIndicators)) =>
         /\ p_result.status = ERR_TOOL
         /\ p_result.summary = <<"Resource Exhaustion">>
    /\ (/\ ~HasIndicatorOf(TimeoutIndicators)
        /\ ~HasIndicatorOf(ResourceIndicators)
        /\ HasIndicatorOf(EnvironmentIndicators)) =>
         /\ p_result.status = ERR_TOOL
         /\ p_result.summary = <<"Environment Error">>
    /\ p_result.status = ERR_LG =>
         ~HasIndicatorOf(TimeoutIndicators \cup ResourceIndicators
                           \cup EnvironmentIndicators)
    /\ ~HasIndicatorOf(TimeoutIndicators \cup ResourceIndicators
                         \cup EnvironmentIndicators) =>
         p_result.status = ERR_LG

\* Indicators of all three groups, the environment one in stdout and the
\* timeout one last in stderr and in capitals: the summary is Timeout.
C26_Witness ==
  /\ p_done
  /\ p_return_code = 1
  /\ p_stdout = <<Tok("no such file")>>
  /\ p_stderr = <<Tok("out of memory"), Tok("TIMEOUT")>>
  /\ p_result.status = ERR_TOOL
  /\ p_result.summary = <<"Timeout">>

-----------------------------------------------------------------------------
(* More properties of Orchestrator.solve and LeanVerifier.verify (under
   SpecSolve) *)

\* The last verify call wrote Main.lean and the checker process ran to
\* completion; its result is in verification_result.
CheckerCompleted ==
  /\ pc = "branch"
  /\ oracle_env.write = "written"
  /\ oracle_env.run = "completed"

\* What the parser makes of the output the last checker run left.
classified ==
  parse(oracle_env.stdout, oracle_env.stderr, oracle_env.returncode)

\* C27: when the file was written and the checker process ran to completion,
\* verify returns the parser's result for the captured stdout, stderr and
\* exit status, unchanged: the same status, summary, feedback and unsolved
\* goal count (and the same raw output).
C27_VerifyReturnsClassification ==
  CheckerCompleted =>
    /\ verification_result.status = classified.status
    /\ verification_result.summary = classified.summary
    /\ verification_result.feedback = classified.feedback
    /\ verification_result.unsolved_goals_count = classified.unsolved_goals_count
    /\ verification_result = classified
    /\ calls.parse >= 1

\* A completed run that left two unsolved goals: verify returns ERR_LG with
\* the parser's count of 2.
C27_Witness ==
  /\ CheckerCompleted
  /\ oracle_env.returncode = 1
  /\ verification_result.status = ERR_LG
  /\ verification_result.unsolved_goals_count = 2
  /\ verification_result = classified

-----------------------------------------------------------------------------
(* More properties of PotentialCalculator.compute (under SpecPotential) *)

\* sorry_count * w_sorry for the artifact and the weights handed to compute
BasePotential == SorryCount * phi_weights.w_sorry

\* C28: compute follows the case formula.  Without a result the potential is
\* the base; status OK gives 0 when the artifact holds no admitted marker and
\* the base otherwise; ERR_LG gives the base plus unsolved_goals_count *
\* w_goals, plus w_error when the count is 0; ERR_TOOL gives the base plus
\* w_error; the potential is never negative (no weight is negative).
C28_PotentialCaseFormula ==
  phi_done =>
    /\ IF phi_result = None THEN phi_value = BasePotential
       ELSE /\ phi_result.status = OK =>
                 phi_value = (IF SorryCount = 0 THEN 0 ELSE BasePotential)
            /\ (phi_result.status = ERR_LG /\ phi_result.unsolved_goals_count # 0) =>
                 phi_value = BasePotential
                               + phi_result.unsolved_goals_count * phi_weights.w_goals
            /\ (phi_result.status = ERR_LG /\ phi_result.unsolved_goals_count = 0) =>
                 phi_value = BasePotential + phi_weights.w_error
            /\ phi_result.status = ERR_TOOL =>
                 phi_value = BasePotential + phi_weights.w_error
    /\ phi_value >= 0

\* A logical error without a goal count on an artifact with one admitted
\* marker and the default weights: 1 * 2 + 0 * 1 + 5 = 7.
C28_Witness ==
  /\ phi_done
  /\ phi_weights = [w_goals |-> weight_goals, w_sorry |-> weight_sorry,
                    w_error |-> penalty_error]
  /\ phi_result # None
  /\ phi_result.status = ERR_LG
  /\ phi_result.unsolved_goals_count = 0
  /\ SorryCount = 1
  /\ phi_value = 7

-----------------------------------------------------------------------------
(* The arguments and the order of the calls of the refinement loop (under
   SpecSolve) *)

\* C29: every sample_kernel call is handed the LogicalSpec embed returned,
\* unchanged, and the history so far: in iteration s exactly the s entries
\* appended in iterations 0..s-1, in order (none in iteration 0), which are
\* the first s entries of the history ever after; every verify call is handed
\* that same LogicalSpec; embed is called once.
C29_SamplerGivenSpecAndFullHistory ==
  /\ calls.embed <= 1
  /\ logical_spec # None => logical_spec = embed(trace_spec)
  /\ \A i \in 1..Len(events) :
       LET e == events[i]
       IN  /\ e.event = "sample_kernel" =>
                /\ e.logical_spec = embed(trace_spec)
                /\ Len(e.history) = e.step
                /\ \A j \in 1..Len(e.history) : e.history[j].step = j - 1
                /\ Len(history) >= e.step
                /\ e.history = SubSeq(history, 1, e.step)
           /\ e.event = "verify" => e.logical_spec = embed(trace_spec)

\* The third iteration: the sampler got the entries of a tool error and of a
\* logical error, and verify has been called with the same LogicalSpec.
C29_Witness ==
  \E i \in 1..Len(events) - 1 :
    /\ events[i].event = "sample_kernel"
    /\ events[i].step = 2
    /\ Len(events[i].history) = 2
    /\ events[i].history[1] = tool_entry(0)
    /\ events[i].history[2].step = 1
    /\ "artifact" \in DOMAIN events[i].history[2]
    /\ events[i + 1].event = "verify"
    /\ events[i + 1].logical_spec = events[i].logical_spec

\* The event before the i-th one is one of the named events of the same
\* iteration.
Follows(i, names) ==
  /\ i > 1
  /\ events[i - 1].event \in names
  /\ events[i - 1].step = events[i].step

\* C30: the loop is sequential.  Within an iteration the calls come in the
\* order sample_kernel, verify, _write_candidate_file, subprocess.run, parse,
\* then the sleep of a tool error and the history update; the sampler call of
\* iteration s + 1 comes directly after the history update of iteration s;
\* no iteration has two sampler calls, two verify calls or two writes of
\* Main.lean, and an iteration that got to its branch has written the file
\* once; while a verify call is due or being dealt with, no sampler call is.
C30_LoopIsSequential ==
  /\ \A i \in 1..Len(events) :
       LET e == events[i]
       IN  /\ e.event = "sample_kernel" =>
                IF i = 1 THEN e.step = 0
                ELSE /\ events[i - 1].event = "history.append"
                     /\ events[i - 1].step = e.step - 1
           /\ e.event = "verify" => Follows(i, {"sample_kernel"})
           /\ e.event = "_write_candidate_file" => Follows(i, {"verify"})
           /\ e.event = "subprocess.run" => Follows(i, {"_write_candidate_file"})
           /\ e.event = "parse" => Follows(i, {"subprocess.run"})
           /\ e.event = "sleep" =>
                Follows(i, {"_write_candidate_file", "subprocess.run", "parse"})
           /\ e.event = "history.append" => Follows(i, {"parse", "sleep"})
           /\ e.event = "return" => Follows(i, {"parse"})
           /\ e.event \in {"history.append", "return"} =>
                Cardinality({j \in 1..i : /\ events[j].event = "_write_candidate_file"
                                          /\ events[j].step = e.step}) = 1
  /\ \A i, j \in 1..Len(events) :
       (events[i].event = events[j].event /\ events[i].step = events[j].step)
         => i = j
  /\ pc = "verify" => events[Len(events)].event = "sample_kernel"
  /\ pc = "branch" =>
       events[Len(events)].event \in {"_write_candidate_file", "subprocess.run", "parse"}
  /\ (pc = "loop" /\ events # <<>>) => events[Len(events)].event = "history.append"
  /\ calls.sample_kernel - calls.verify \in {0, 1}
  /\ calls.sample_kernel = calls.verify + 1 <=> pc = "verify"

\* Two whole iterations: a checker run that timed out, with its sleep, and a
\* logical error.
C30_Witness ==
  /\ Len(events) = 12
  /\ [i \in 1..12 |-> events[i].event] =
       <<"sample_kernel", "verify", "_write_candidate_file", "subprocess.run",
         "sleep", "history.append",
         "sample_kernel", "verify", "_write_candidate_file", "subprocess.run",
         "parse", "history.append">>
  /\ [i \in 1..12 |-> events[i].step] = <<0, 0, 0, 0, 0, 0, 1, 1, 1, 1, 1, 1>>
  /\ pc = "loop"

-----------------------------------------------------------------------------
(* Properties of FeedbackParser._extract_error_context (under SpecParse) *)

\* The combined output parse works on.
FullOutput == full_output_of(p_stdout, p_stderr)

\* The pieces of the feedback, told by their headings.
CompilerHeading == Tok("Compiler Error: ")
ProofStateHeading == Tok("Proof State at Failure:\n")
RawTailHeading == Tok("Raw Output Tail:\n")

\* Where the feedback holds the heading.
HeadingAt(heading) ==
  {i \in 1..Len(p_result.feedback) : p_result.feedback[i] = heading}

\* The output has an "error:" or "Error:" marker, so that a compiler error
\* piece is produced; it has "unsolved goals" followed by a line end, so that
\* a proof state piece is produced.
CompilerPieceProduced ==
  \E i \in 1..Len(FullOutput) : FullOutput[i] \in {Tok("error:"), Tok("Error:")}
ProofStatePieceProduced ==
  \E i \in 1..(Len(FullOutput) - 1) :
    FullOutput[i] = Tok("unsolved goals") /\ FullOutput[i + 1] = NL

\* The feedback from the heading at position i up to the line end before the
\* next heading, or up to the end.
PieceAt(i) ==
  LET later == {j \in (i + 1)..Len(p_result.feedback) :
                  p_result.feedback[j] \in {CompilerHeading, ProofStateHeading,
                                            RawTailHeading}}
      to == IF later = {} THEN Len(p_result.feedback)
            ELSE (CHOOSE j \in later : \A k \in later : j <= k) - 2
  IN  SubSeq(p_result.feedback, i + 1, to)

\* C31: the feedback of an ERR_LG result is made of the pieces produced, joined
\* by line ends: the compiler error piece first (the text after the first
\* "error:" marker), then the proof state piece (the text between "unsolved
\* goals" and the next blank line or the end); the raw tail piece is there
\* exactly when neither of the two was produced, and then alone; the feedback
\* is never empty.
C31_FeedbackPieces ==
  (p_done /\ p_result.status = ERR_LG) =>
    /\ p_result.feedback # <<>>
    /\ p_result.feedback[1] \in {CompilerHeading, ProofStateHeading, RawTailHeading}
    /\ HeadingAt(CompilerHeading) = (IF CompilerPieceProduced THEN {1} ELSE {})
    /\ Cardinality(HeadingAt(ProofStateHeading)) =
         (IF ProofStatePieceProduced THEN 1 ELSE 0)
    /\ HeadingAt(RawTailHeading) =
         (IF ~CompilerPieceProduced /\ ~ProofStatePieceProduced THEN {1} ELSE {})
    /\ \A i \in HeadingAt(ProofStateHeading) :
         /\ (i = 1) <=> ~CompilerPieceProduced
         /\ i > 1 => p_result.feedback[i - 1] = NL
         /\ LET state == strip(goal_match(FullOutput)[1])
            IN  PieceAt(i) = (IF len(state) > SnippetLimit
                              THEN prefix(state, SnippetLimit)
                                     \o <<Tok("... [truncated]")>>
                              ELSE state)
    /\ CompilerPieceProduced => PieceAt(1) = error_matches(FullOutput)[1]
    /\ HeadingAt(RawTailHeading) # {} =>
         PieceAt(1) = strip(suffix(FullOutput, TailLimit))

\* An output with a compiler error and a proof state: both pieces, in order.
C31_Witness ==
  /\ p_done
  /\ p_return_code = 1
  /\ p_stdout = <<Tok("unsolved goals")>>
  /\ p_stderr = <<Tok("Error:"), Tok("txt")>>
  /\ p_result.status = ERR_LG
  /\ p_result.feedback =
       <<CompilerHeading, Tok("txt"), NL, ProofStateHeading, Tok("Error:"),
         Tok("txt")>>


\* Where the combined output holds an "error:" marker in any casing.
MarkerAt ==
  {i \in 1..Len(FullOutput) : LowerName(FullOutput[i][1]) = "error:"}

\* The text that follows the first marker up to the end of its line, leading
\* whitespace skipped.
TextAfterFirstMarker ==
  LET i == CHOOSE m \in MarkerAt : \A k \in MarkerAt : m <= k
      text == {j \in (i + 1)..Len(FullOutput) : ~IsSpace(FullOutput[j])}
      from == IF text = {} THEN Len(FullOutput) + 1
              ELSE CHOOSE j \in text : \A k \in text : j <= k
      ends == {j \in from..Len(FullOutput) : IsSpace(FullOutput[j])}
      to == IF ends = {} THEN Len(FullOutput)
            ELSE (CHOOSE j \in ends : \A k \in ends : j <= k) - 1
  IN  SubSeq(FullOutput, from, to)

\* C32: whatever the casing of the "error:" marker in an output classified
\* ERR_LG, the feedback starts with a compiler error piece that holds the text
\* following the first marker.
C32_ErrorMarkerAnyCasing ==
  (p_done /\ p_result.status = ERR_LG /\ MarkerAt # {}) =>
    /\ p_result.feedback[1] = CompilerHeading
    /\ PieceAt(1) = TextAfterFirstMarker

\* Length of a text of tokens.
FeedbackLength == len(p_result.feedback)

\* The longest feedback whose compiler error piece is no longer than the limit
\* of the proof state piece: two headings, two pieces, the truncation marker
\* and the line end between the pieces.
FeedbackLimit ==
  len(<<CompilerHeading, ProofStateHeading, Tok("... [truncated]"), NL>>)
    + 2 * SnippetLimit

\* C33: the feedback parse returns is no longer than a fixed limit, whatever
\* the length of the output; the proof state piece holds at most 1000
\* characters of the output and the truncation marker, the raw tail at most
\* the last 800 characters.
C33_FeedbackBounded ==
  (p_done /\ p_result.status = ERR_LG) =>
    /\ FeedbackLength <= FeedbackLimit
    /\ \A i \in HeadingAt(ProofStateHeading) :
         len(PieceAt(i)) <= SnippetLimit + CharsOf("... [truncated]")
    /\ \A i \in HeadingAt(RawTailHeading) : len(PieceAt(i)) <= TailLimit

\* The two pieces that are cut hold to their limits (the part of C33 that
\* holds).
C33_CutPiecesBounded ==
  (p_done /\ p_result.status = ERR_LG) =>
    /\ \A i \in HeadingAt(ProofStateHeading) :
         len(PieceAt(i)) <= SnippetLimit + CharsOf("... [truncated]")
    /\ \A i \in HeadingAt(RawTailHeading) : len(PieceAt(i)) <= TailLimit


\* stdout or stderr holds the words, in any casing.
OutputHas(words) ==
  \E out \in {p_stdout, p_stderr} : \E i \in 1..Len(out) :
    LowerName(out[i][1]) = words /\ out[i][2] = CharsOf(out[i][1])

\* C34: the summary of an ERR_LG result names the first rule that matches, in
\* any casing: "tactic" and "failed" give Tactic Failure, else "type mismatch"
\* gives Type Mismatch, else "unknown identifier" gives Syntax/Scope Error,
\* else Logical Error; and it holds the goal count, which is the result's
\* unsolved_goals_count.
C34_LogicalSummary ==
  (p_done /\ p_result.status = ERR_LG) =>
    /\ Len(p_result.summary) = 3
    /\ p_result.summary[1] =
         (IF OutputHas("tactic") /\ OutputHas("failed") THEN "Tactic Failure"
          ELSE IF OutputHas("type mismatch") THEN "Type Mismatch"
          ELSE IF OutputHas("unknown identifier") THEN "Syntax/Scope Error"
          ELSE "Logical Error")
    /\ p_result.summary[2] = p_result.unsolved_goals_count
    /\ p_result.summary[3] = "goals left"

\* A failed tactic, written with a capital, next to a type mismatch: Tactic
\* Failure.
C34_Witness ==
  /\ p_done
  /\ p_return_code = 1
  /\ p_stdout = <<Tok("type mismatch")>>
  /\ p_stderr = <<Tok("Tactic"), Tok("failed")>>
  /\ p_result.status = ERR_LG
  /\ p_result.summary = <<"Tactic Failure", 1, "goals left">>

-----------------------------------------------------------------------------
(* Properties of TDDRunner.run_benchmark (under SpecTdd and SpecTddFair) *)

\* What holds at every moment of a run_benchmark call whose test file is
\* there.
TddLoopInvariant ==
  /\ tdd_calls.sample_kernel = tdd_iteration
  /\ tdd_calls.sample_kernel <= tdd_max_iterations
  /\ tdd_calls.passed <= 1
  /\ tdd_calls.passed = 1 <=> tdd_files.final_solution # None
  /\ tdd_calls.passed = 1 =>
       /\ tdd_pc = "returned"
       /\ tdd_files.final_solution = tdd_current_code
       /\ tdd_files.solution = tdd_current_code
       /\ tdd_current_code # EmptyCode
  /\ tdd_files.failed_solution # None =>
       /\ tdd_pc = "returned"
       /\ tdd_calls.passed = 0
       /\ tdd_iteration = tdd_max_iterations
       /\ tdd_files.failed_solution = tdd_current_code
  /\ tdd_pc = "returned" =>
       (tdd_files.final_solution # None) # (tdd_files.failed_solution # None)
  /\ tdd_pc # "returned" =>
       tdd_files.final_solution = None /\ tdd_files.failed_solution = None
  /\ tdd_messages # <<>> => tdd_messages[1] = user_msg(InitialFeedback)
  /\ \A i \in 2..Len(tdd_messages) :
       tdd_messages[i - 1].role = "assistant" =>
         /\ tdd_messages[i].role = "user"
         /\ tdd_messages[i].content.kind = "pytest output (failures)"
         /\ tdd_messages[i].content.output.chars <= OutputLimit
  /\ (tdd_messages # <<>> /\ tdd_messages[Len(tdd_messages)].role = "assistant") =>
       /\ tdd_feedback.kind = "pytest output (failures)"
       /\ tdd_feedback.output.chars <= OutputLimit
  /\ Cardinality({i \in 1..Len(tdd_messages) : tdd_messages[i].role = "assistant"})
       = tdd_calls._run_pytest - tdd_calls.passed

C35_Witness ==
  /\ tdd_pc = "returned"
  /\ tdd_max_iterations = 3
  /\ tdd_iteration = 2
  /\ Len(tdd_messages) = 3
  /\ tdd_messages[3] = user_msg(pytest_feedback(Text("failed", 2500)))
  /\ tdd_messages[3].content.output.chars = OutputLimit
  /\ tdd_files.final_solution = tdd_current_code
  /\ tdd_files.failed_solution = None

C36_NoCodeLeavesMessages ==
  [][(tdd_iteration' = tdd_iteration + 1 /\ tdd_current_code' = EmptyCode) =>
       /\ tdd_messages' = tdd_messages
       /\ tdd_files' = tdd_files
       /\ tdd_calls'.solution = tdd_calls.solution
       /\ tdd_calls'._run_pytest = tdd_calls._run_pytest]_vars

\* The part of C36 that holds: no write of solution.py, no pytest run, and the
\* response is not appended; the user message of the iteration is.
C36_NoCodeKeepsUserMessage ==
  [][(tdd_iteration' = tdd_iteration + 1 /\ tdd_current_code' = EmptyCode) =>
       /\ tdd_messages' = Append(tdd_messages, user_msg(tdd_feedback))
       /\ tdd_files' = tdd_files
       /\ tdd_calls'.solution = tdd_calls.solution
       /\ tdd_calls'._run_pytest = tdd_calls._run_pytest]_vars


------------------------------------------------------------------------------
(* Properties of Orchestrator.metrics over successive solve calls
   (under SpecSolveAgain) *)

\* The metrics records of the solve call in progress, and of the calls before.
LoggedByThisCall == Handled
LoggedBefore == Len(metrics.iterations) - Handled

StrictlyIncreasing(seq) ==
  \A i \in 1..(Len(seq) - 1) : seq[i] < seq[i + 1]

\* C37: the metrics log is an attribute of the Orchestrator made by __init__
\* and never reset.  A solve call that starts leaves the log as it is and
\* starts with an empty history; the log's length is the number of iterations
\* dealt with by all the calls together (the records of the calls before stay,
\* and the call in progress adds one for each of its iterations that verify
\* returned from); the records of the call in progress
\* carry the indices 0, 1, ... after the records of the calls before, each of
\* which starts again from 0, so that the index sequence is not strictly
\* increasing once two calls have each logged an iteration.
C37_MetricsSharedAcrossCalls ==
  /\ [](/\ Len(metrics.iterations) = Len(metrics.semantic_potential)
        /\ LoggedBefore >= 0
        /\ SolveCalls = 1 => LoggedBefore = 0
        /\ \A i \in 1..LoggedByThisCall :
             metrics.iterations[LoggedBefore + i] = i - 1
        /\ \A i \in 1..LoggedBefore :
             \/ metrics.iterations[i] = 0
             \/ i > 1 /\ metrics.iterations[i] = metrics.iterations[i - 1] + 1
        /\ LoggedBefore >= 1 => metrics.iterations[1] = 0
        /\ (LoggedBefore >= 1 /\ LoggedByThisCall >= 1) =>
             ~StrictlyIncreasing(metrics.iterations)
        /\ pc \in {"formalize", "embed"} => history = <<>>
        /\ Len(history) <= LoggedByThisCall)
  /\ [][IF pc \in {"success", "failure", "raised"} /\ pc' = "formalize"
        THEN /\ metrics' = metrics
             /\ history' = <<>>
             /\ step' = 0
             /\ LoggedBefore' = LoggedBefore + LoggedByThisCall
        ELSE LoggedBefore' = LoggedBefore]_vars

\* The second call has dealt with three iterations after the two of the first
\* call: the indices start again at 0 in the middle of the log, and the
\* history holds the entries of the second call only.
C37_Witness ==
  /\ SolveCalls = 2
  /\ pc = "failure"
  /\ metrics.iterations = <<0, 1, 0, 1, 2>>
  /\ Len(history) = 3
  /\ calls.verify = 5


------------------------------------------------------------------------------
(* Properties of the history and of the calls of one solve call
   (under SpecSolve) *)

\* C38 as stated, in the part that fails: in every reachable state of a solve
\* call the number of sample calls equals the number of verify calls.
C38_SampleCallsEqualVerifyCalls ==
  calls.sample_kernel = calls.verify

\* An iteration has reached its branch with a logical or a tool error.
ErrorBranch ==
  /\ pc = "branch"
  /\ verification_result.status \in {ERR_LG, ERR_TOOL}

\* C38 amended: every iteration that ends in ERR_LG or ERR_TOOL appends
\* exactly one history entry whose step field is the iteration's index, and
\* nothing else changes the history, so that in every state the history has
\* step entries whose step fields are 0, 1, ..., step - 1 in order; the number
\* of sample calls equals the number of verify calls except between the return
\* of sample_kernel and the call of verify, where it is one more; on success
\* at iteration s the history has exactly s entries.
C38_HistoryStepsInOrder ==
  /\ [](/\ Len(history) = step
        /\ \A i \in 1..Len(history) : history[i].step = i - 1
        /\ pc # "verify" => calls.sample_kernel = calls.verify
        /\ pc = "verify" => calls.sample_kernel = calls.verify + 1
        /\ pc = "success" =>
             /\ calls.verify = step + 1
             /\ Len(history) = step)
  /\ [][IF ErrorBranch
        THEN /\ Len(history') = Len(history) + 1
             /\ SubSeq(history', 1, Len(history)) = history
             /\ history'[Len(history')].step = step
             /\ step' = step + 1
        ELSE history' = history]_vars

\* Success at iteration 2 after a tool error and a logical error: the history
\* holds the two entries of the iterations 0 and 1.
C38_Witness ==
  /\ pc = "success"
  /\ step = 2
  /\ Len(history) = 2
  /\ "error_type" \in DOMAIN history[1]
  /\ "artifact" \in DOMAIN history[2]
  /\ calls.sample_kernel = 3
  /\ calls.verify = 3

\* Between the two calls of an iteration one more sample call has been made.
C38_WitnessBetweenCalls ==
  /\ pc = "verify"
  /\ step = 1
  /\ calls.sample_kernel = 2
  /\ calls.verify = 1


------------------------------------------------------------------------------
(* Properties of TokenBucketSUT.acquire (under SpecBucket) *)

\* The tokens handed out by the successful calls logged at second s.
RECURSIVE GrantedAt(_, _)
GrantedAt(log, s) ==
  IF log = <<>> THEN 0
  ELSE GrantedAt(SubSeq(log, 1, Len(log) - 1), s) +
       (IF /\ log[Len(log)].kind \in {"acquire_success", "acquire_blocking_success"}
           /\ log[Len(log)].time = s
        THEN log[Len(log)].tokens
        ELSE 0)

\* Thread t runs the body of acquire in this step.
AcquireReturns(t) ==
  /\ tb_pc[t] = "enter"
  /\ tb_op[t].name = "acquire"
  /\ tb_pc'[t] = "idle"

\* The token count the refill of this step gives.
Refilled ==
  refill(tb_current_tokens, tb_last_update, tb_now, tb_rate, tb_capacity)

\* C39: acquire is all-or-nothing.  A call that returns True leaves
\* current_tokens at the refilled count less exactly the tokens asked for,
\* and the refilled count was enough; a call that returns False leaves it at
\* the refilled count, which was not enough.  The count is never negative,
\* and while the clock stands after a refill, whatever the threads call, the
\* tokens handed out and the tokens left add up to the same number: the
\* successful acquires between two refills never hand out more than the
\* tokens that were available.
C39_AcquireAllOrNothing ==
  /\ [](/\ tb_current_tokens >= 0
        /\ tb_last_update = tb_now =>
             tb_current_tokens + GrantedAt(tb_acquisition_history, tb_now)
               <= tb_capacity)
  /\ [][\A t \in BucketThreads :
          AcquireReturns(t) =>
            /\ tb_returned'[t] \in {Bool(TRUE), Bool(FALSE)}
            /\ tb_returned'[t] = Bool(TRUE) =>
                 /\ Refilled >= tb_op[t].tokens
                 /\ tb_current_tokens' = Refilled - tb_op[t].tokens
            /\ tb_returned'[t] = Bool(FALSE) =>
                 /\ Refilled < tb_op[t].tokens
                 /\ tb_current_tokens' = Refilled]_vars
  /\ [][(tb_now' = tb_now /\ tb_last_update = tb_now) =>
          tb_current_tokens' + GrantedAt(tb_acquisition_history', tb_now) =
            tb_current_tokens + GrantedAt(tb_acquisition_history, tb_now)]_vars

\* Two threads have asked for one token each in the same second with one
\* token in the bucket: one call returned True, the other False, and the
\* bucket is empty.
C39_Witness ==
  /\ tb_capacity = 1
  /\ tb_pc[1] = "idle"
  /\ tb_pc[2] = "idle"
  /\ tb_op[1] # None
  /\ tb_op[2] # None
  /\ tb_op[1].name = "acquire"
  /\ tb_op[2].name = "acquire"
  /\ tb_op[1].tokens = 1
  /\ tb_op[2].tokens = 1
  /\ tb_returned[1] = Bool(TRUE)
  /\ tb_returned[2] = Bool(FALSE)
  /\ Len(tb_acquisition_history) = 2
  /\ tb_acquisition_history[1].time = tb_acquisition_history[2].time
  /\ tb_current_tokens = 0


------------------------------------------------------------------------------
(* Properties of BoundedBufferSUT.try_put and try_get (under SpecBuffer) *)

\* Thread t returns from the call of the given name in this step.
Returns(t, name) ==
  /\ bb_pc[t] \in {"enter", "notified", "timedout"}
  /\ bb_op[t].name = name
  /\ bb_pc'[t] = "idle"

\* Thread t takes a step inside the call of the given name without returning:
\* it goes (back) into wait, or its wait times out.
GoesOn(t, name) ==
  /\ bb_op[t] # None
  /\ bb_op[t].name = name
  /\ \/ bb_pc[t] \in {"enter", "notified", "timedout"} /\ bb_pc'[t] = "waiting"
     \/ bb_pc[t] = "waiting" /\ bb_pc'[t] = "timedout"

BufferUnchanged ==
  UNCHANGED <<bb_buffer, bb_enqueue_history, bb_dequeue_history>>

Occurrences(seq, v) == Cardinality({i \in 1..Len(seq) : seq[i] = v})

\* C40: try_put returns False only on the timeout path (its timeout has run
\* out and the buffer is full when it holds the lock), and try_get returns
\* None only on the timeout path (timeout run out, buffer empty); each then
\* leaves buffer, enqueue_history and dequeue_history as they are.  A try_put
\* that returns True has appended its item once to buffer and to
\* enqueue_history; a try_get that returns an item has removed exactly that
\* item from the head of the buffer and logged it in dequeue_history.
C40_TryCallsAllOrNothing ==
  /\ [][\A t \in Producers :
          Returns(t, "try_put") =>
            /\ bb_returned'[t] \in {Bool(TRUE), Bool(FALSE)}
            /\ bb_returned'[t] = Bool(FALSE) <=>
                 (bb_expired[t] /\ is_full(bb_buffer, bb_capacity))
            /\ bb_returned'[t] = Bool(FALSE) => BufferUnchanged
            /\ bb_returned'[t] = Bool(TRUE) =>
                 /\ bb_buffer' = Append(bb_buffer, bb_op[t].item)
                 /\ bb_enqueue_history' =
                      Append(bb_enqueue_history, bb_op[t].item)
                 /\ Occurrences(bb_enqueue_history', bb_op[t].item) = 1
                 /\ Occurrences(bb_buffer', bb_op[t].item) = 1
                 /\ UNCHANGED bb_dequeue_history]_vars
  /\ [][\A t \in Consumers :
          Returns(t, "try_get") =>
            /\ bb_returned'[t] = None <=>
                 (bb_expired[t] /\ is_empty(bb_buffer))
            /\ bb_returned'[t] = None => BufferUnchanged
            /\ bb_returned'[t] # None =>
                 /\ bb_buffer # <<>>
                 /\ bb_returned'[t] = Item(Head(bb_buffer))
                 /\ bb_buffer' = Tail(bb_buffer)
                 /\ bb_dequeue_history' =
                      Append(bb_dequeue_history, Head(bb_buffer))
                 /\ UNCHANGED bb_enqueue_history]_vars
  /\ [][\A t \in Threads :
          (GoesOn(t, "try_put") \/ GoesOn(t, "try_get")) => BufferUnchanged]_vars

\* A try_put has timed out on a full buffer and a try_get has timed out on an
\* empty one (the only item was taken in between); before that a try_put put
\* its item.
C40_Witness ==
  /\ \E t \in Producers :
       /\ bb_pc[t] = "idle"
       /\ bb_op[t] # None
       /\ bb_op[t].name = "try_put"
       /\ bb_returned[t] = Bool(FALSE)
       /\ bb_op[t].item \notin {bb_enqueue_history[i] :
                                  i \in 1..Len(bb_enqueue_history)}
  /\ \E t \in Consumers :
       /\ bb_pc[t] = "idle"
       /\ bb_op[t] # None
       /\ bb_op[t].name = "try_get"
       /\ bb_returned[t] = None
       /\ bb_expired[t]
  /\ \E t \in Producers :
       /\ bb_pc[t] = "idle"
       /\ bb_op[t] # None
       /\ bb_op[t].name = "try_put"
       /\ bb_returned[t] = Bool(TRUE)
  /\ Len(bb_dequeue_history) = 1
  /\ bb_buffer = <<>>

=============================================================================
